---- MODULE Spec2Model ----
(***************************************************************************)
(* Session state engine of the conversational ordering assistant:          *)
(* the in-memory user memory map (messages, location, store, cart,         *)
(* pagination page, last shown services) of src/services/memory.ts and     *)
(* the workflow dispatch of src/vendorFlow/workflowRouter.ts.              *)
(*                                                                         *)
(* Strings that the code inspects (names) are sequences of one-character   *)
(* strings, so toLowerCase / trim / includes are computed, not assumed.    *)
(* An optional field that is unset is a field absent from the record.      *)
(***************************************************************************)
EXTENDS Integers, Sequences, FiniteSets, TLC

VARIABLES userMemoryMap, call, appendLog, routed, inflight, chatSockets, sockets

vars == <<userMemoryMap, call, appendLog, routed, inflight, chatSockets, sockets>>

(***************************************************************************)
(* Bounds of the model.  STORE_LIMIT and MESSAGE_LIMIT stand for the       *)
(* program's 500 and 100 (memory.ts:162, memory.ts:63), scaled down so     *)
(* that overflow is reached; every formula is stated against the names.    *)
(***************************************************************************)
STORE_LIMIT == 3
MESSAGE_LIMIT == 3
MaxAppends == 5
MaxCartLen == 2
MaxQty == 2
MaxTurns == 2

AllChats == {"c1", "c2"}
CartChats == {"c1"}
StoreChats == {"c1"}
MessageChats == {"c1"}
ServiceIds == {1, 2}
VendorIds == {1, 2}
\* the (serviceId, vendorId) pairs the cart operations are called with
CartKeys == {<<1, 1>>, <<2, 1>>, <<1, 2>>}
Times == {1}

(***************************************************************************)
(* Generic helpers                                                         *)
(***************************************************************************)
Range(s) == {s[i] : i \in 1..Len(s)}

\* Array.prototype.findIndex: first index satisfying P, 0 when none (JS -1)
FindIndex(s, P(_)) ==
  IF \E i \in 1..Len(s) : P(s[i])
  THEN CHOOSE i \in 1..Len(s) : P(s[i]) /\ \A j \in 1..(i-1) : ~P(s[j])
  ELSE 0

\* Array.prototype.filter
Filter(s, P(_)) == SelectSeq(s, P)

\* Array.prototype.splice(i, 1)
RemoveAt(s, i) == SubSeq(s, 1, i-1) \o SubSeq(s, i+1, Len(s))

\* object spread {...a, ...b}
Spread(a, b) ==
  [f \in (DOMAIN a) \cup (DOMAIN b) |-> IF f \in DOMAIN b THEN b[f] ELSE a[f]]

\* rec.f || dflt for a numeric optional field
OrDefault(rec, f, dflt) ==
  IF f \in DOMAIN rec /\ rec[f] # 0 THEN rec[f] ELSE dflt

(***************************************************************************)
(* The memory map: Map<chatId, UserMemory>                                 *)
(***************************************************************************)
EmptyMemory ==
  [messages |-> <<>>, location |-> <<>>, store |-> <<>>, cart |-> <<>>,
   lastServicePage |-> 0, lastShownServices |-> <<>>]

MapSet(m, chatId, rec) ==
  [c \in (DOMAIN m) \cup {chatId} |-> IF c = chatId THEN rec ELSE m[c]]

MapDelete(m, chatId) == [c \in (DOMAIN m) \ {chatId} |-> m[c]]

ensureUserMemory(m, chatId) ==
  IF chatId \in DOMAIN m THEN m ELSE MapSet(m, chatId, EmptyMemory)

(***************************************************************************)
(* Cart operations                                                         *)
(***************************************************************************)
SameKey(item, serviceId, vendorId) ==
  item.serviceId = serviceId /\ item.vendorId = vendorId

\* addToCart writing the quantity given over the quantity of the line
addToCart_overwrite(m, chatId, cartItem, now) ==
  LET m1 == ensureUserMemory(m, chatId)
      cart == m1[chatId].cart
      Match(item) == SameKey(item, cartItem.serviceId, cartItem.vendorId)
      existingIndex == FindIndex(cart, Match)
      newCart ==
        IF existingIndex > 0
        THEN [cart EXCEPT ![existingIndex].quantity = OrDefault(cartItem, "quantity", 1)]
        ELSE Append(cart, Spread(cartItem,
               [quantity |-> OrDefault(cartItem, "quantity", 1),
                addedAt |-> now]))
  IN MapSet(m1, chatId, [m1[chatId] EXCEPT !.cart = newCart])

addToCart(m, chatId, cartItem, now) ==
  LET m1 == ensureUserMemory(m, chatId)
      cart == m1[chatId].cart
      Match(item) == SameKey(item, cartItem.serviceId, cartItem.vendorId)
      existingIndex == FindIndex(cart, Match)
      newCart ==
        IF existingIndex > 0
        THEN [cart EXCEPT ![existingIndex].quantity =
                             @ + OrDefault(cartItem, "quantity", 1)]
        ELSE Append(cart, Spread(cartItem,
               [quantity |-> OrDefault(cartItem, "quantity", 1),
                addedAt |-> now]))
  IN MapSet(m1, chatId, [m1[chatId] EXCEPT !.cart = newCart])

HasCartLine(m, chatId, serviceId, vendorId) ==
  /\ chatId \in DOMAIN m
  /\ \E i \in 1..Len(m[chatId].cart) : SameKey(m[chatId].cart[i], serviceId, vendorId)

getCart(m, chatId) == IF chatId \in DOMAIN m THEN m[chatId].cart ELSE <<>>

\* removeFromCart matching on the service only (the vendor is ignored)
removeFromCart_serviceOnly(m, chatId, serviceId, vendorId) ==
  IF chatId \notin DOMAIN m THEN m
  ELSE LET Keep(item) == item.serviceId # serviceId
       IN [m EXCEPT ![chatId].cart = Filter(@, Keep)]

removeFromCart(m, chatId, serviceId, vendorId) ==
  IF chatId \notin DOMAIN m THEN m
  ELSE LET Keep(item) == ~SameKey(item, serviceId, vendorId)
       IN [m EXCEPT ![chatId].cart = Filter(@, Keep)]

\* clearCart dropping the record of the conversation with its cart
clearCart_dropRecord(m, chatId) == MapDelete(m, chatId)

clearCart(m, chatId) ==
  IF chatId \in DOMAIN m THEN [m EXCEPT ![chatId].cart = <<>>] ELSE m

\* updateCartItemQuantity obtaining the record with ensureUserMemory
updateCartItemQuantity_ensure(m, chatId, serviceId, vendorId, quantity) ==
  LET m1 == ensureUserMemory(m, chatId)
      cart == m1[chatId].cart
      Match(item) == SameKey(item, serviceId, vendorId)
      itemIndex == FindIndex(cart, Match)
  IN IF itemIndex > 0
     THEN IF quantity <= 0
          THEN <<[m1 EXCEPT ![chatId].cart = RemoveAt(cart, itemIndex)], TRUE>>
          ELSE <<[m1 EXCEPT ![chatId].cart[itemIndex].quantity = quantity], TRUE>>
     ELSE <<m1, FALSE>>

\* returns the pair <<new map, returned boolean>>
updateCartItemQuantity(m, chatId, serviceId, vendorId, quantity) ==
  IF chatId \notin DOMAIN m THEN <<m, FALSE>>
  ELSE LET cart == m[chatId].cart
           Match(item) == SameKey(item, serviceId, vendorId)
           itemIndex == FindIndex(cart, Match)
       IN IF itemIndex > 0
          THEN IF quantity <= 0
               THEN <<[m EXCEPT ![chatId].cart = RemoveAt(cart, itemIndex)], TRUE>>
               ELSE <<[m EXCEPT ![chatId].cart[itemIndex].quantity = quantity], TRUE>>
          ELSE <<m, FALSE>>

\* returns the pair <<new map, returned boolean>>
updateCartItem(m, chatId, serviceId, vendorId, updates) ==
  IF chatId \notin DOMAIN m THEN <<m, FALSE>>
  ELSE LET cart == m[chatId].cart
           Match(item) == SameKey(item, serviceId, vendorId)
           itemIndex == FindIndex(cart, Match)
       IN IF itemIndex > 0
          THEN <<[m EXCEPT ![chatId].cart[itemIndex] = Spread(@, updates)], TRUE>>
          ELSE <<m, FALSE>>

(***************************************************************************)
(* Inputs of the cart operations                                           *)
(***************************************************************************)
ServiceNameOf(serviceId) ==
  IF serviceId = 1 THEN <<"T", "e", "a">>
  ELSE <<"I", "c", "e", "d", " ", "T", "e", "a">>

VendorNameOf(vendorId) ==
  IF vendorId = 1 THEN <<"C", "a", "f", "e">> ELSE <<"D", "i", "n", "e", "r">>

PriceOf(serviceId) == 10 * serviceId

BaseCartItem(serviceId, vendorId) ==
  [serviceId |-> serviceId, serviceName |-> ServiceNameOf(serviceId),
   vendorId |-> vendorId, vendorName |-> VendorNameOf(vendorId),
   price |-> PriceOf(serviceId), addedAt |-> 0]

\* a CartItem handed to addToCart: quantity unset, zero, negative or positive
CartItemInputs ==
  {BaseCartItem(k[1], k[2]) : k \in CartKeys}
  \cup {Spread(BaseCartItem(k[1], k[2]), [quantity |-> q]) :
          k \in CartKeys, q \in {-1, 0, 1, 2}}

\* a Partial<CartItem> handed to updateCartItem
UpdateInputs == {[quantity |-> 0], [quantity |-> 2], [serviceId |-> 1]}

QuantityInputs == {-1, 0, 1, 2}

QtyInRange(cart) == \A i \in 1..Len(cart) : cart[i].quantity \in (-1)..MaxQty

Bool(b) == IF b THEN "true" ELSE "false"

NoOutput == [none |-> 0]

NoRoute ==
  [n |-> 0, cartFlag |-> FALSE, userIdGiven |-> FALSE,
   can |-> [h \in {"CartWorkflow", "ExplorationWorkflow"} |-> FALSE],
   outs |-> [h \in {"CartWorkflow", "ExplorationWorkflow"} |-> NoOutput],
   consulted |-> <<>>, executed |-> <<>>, result |-> <<>>]

\* the requests the server may be working on at once, none received yet
Requests == {"r1", "r2"}
IdleTurn == [pc |-> "idle"]
NoTurns == [r \in Requests |-> IdleTurn]

\* services/socket.ts: the sockets a client may open, none opened yet, and
\* the empty chatSockets map
SocketIds == {"s1", "s2"}
NoSockets == [s \in SocketIds |-> [status |-> "new", data |-> [none |-> 0], identified |-> {}]]
NoChatSockets == [c \in {} |-> {}]

NoCall == [op |-> "none", chatId |-> "", arg |-> [none |-> 0], ret |-> "void"]

\* a populated record, as left by earlier turns of the conversation
BackgroundMemory ==
  [messages |-> <<[role |-> "user", content |-> 1]>>,
   location |-> <<[latitude |-> 26, longitude |-> 80, name |-> <<"K">>]>>,
   store |-> <<[type |-> "vendor", id |-> 1, name |-> VendorNameOf(1),
                lastMentioned |-> 1]>>,
   cart |-> <<>>,
   lastServicePage |-> 1,
   lastShownServices |-> <<[serviceId |-> 1, serviceName |-> ServiceNameOf(1),
                            vendorId |-> 1, vendorName |-> VendorNameOf(1),
                            price |-> PriceOf(1), discount |-> 0, shownAt |-> 1]>>]

EmptyMap == [c \in {} |-> EmptyMemory]

(***************************************************************************)
(* Cart actions: one call of an exported cart function of memory.ts        *)
(***************************************************************************)
AddToCart ==
  \E chatId \in CartChats, cartItem \in CartItemInputs, now \in Times :
    LET m == addToCart(userMemoryMap, chatId, cartItem, now) IN
    /\ Len(m[chatId].cart) <= MaxCartLen
    /\ QtyInRange(m[chatId].cart)
    /\ userMemoryMap' = m
    /\ call' = [op |-> "addToCart", chatId |-> chatId,
                arg |-> [cartItem |-> cartItem, now |-> now], ret |-> "void"]
    /\ UNCHANGED <<appendLog, routed, inflight, chatSockets, sockets>>

RemoveFromCart ==
  \E chatId \in CartChats, key \in CartKeys :
    LET serviceId == key[1]
        vendorId == key[2] IN
    /\ userMemoryMap' = removeFromCart(userMemoryMap, chatId, serviceId, vendorId)
    /\ call' = [op |-> "removeFromCart", chatId |-> chatId,
                arg |-> [serviceId |-> serviceId, vendorId |-> vendorId,
                         lenBefore |-> Len(getCart(userMemoryMap, chatId))],
                ret |-> "void"]
    /\ UNCHANGED <<appendLog, routed, inflight, chatSockets, sockets>>

ClearCart ==
  \E chatId \in CartChats :
    /\ userMemoryMap' = clearCart(userMemoryMap, chatId)
    /\ call' = [op |-> "clearCart", chatId |-> chatId, arg |-> [none |-> 0],
                ret |-> "void"]
    /\ UNCHANGED <<appendLog, routed, inflight, chatSockets, sockets>>

UpdateCartItemQuantity ==
  \E chatId \in CartChats, key \in CartKeys, quantity \in QuantityInputs :
    LET serviceId == key[1]
        vendorId == key[2]
        r == updateCartItemQuantity(userMemoryMap, chatId, serviceId, vendorId,
                                    quantity) IN
    /\ userMemoryMap' = r[1]
    /\ call' = [op |-> "updateCartItemQuantity", chatId |-> chatId,
                arg |-> [serviceId |-> serviceId, vendorId |-> vendorId,
                         quantity |-> quantity],
                ret |-> Bool(r[2])]
    /\ UNCHANGED <<appendLog, routed, inflight, chatSockets, sockets>>

UpdateCartItem ==
  \E chatId \in CartChats, key \in CartKeys, updates \in UpdateInputs :
    LET serviceId == key[1]
        vendorId == key[2]
        r == updateCartItem(userMemoryMap, chatId, serviceId, vendorId, updates) IN
    /\ userMemoryMap' = r[1]
    /\ call' = [op |-> "updateCartItem", chatId |-> chatId,
                arg |-> [serviceId |-> serviceId, vendorId |-> vendorId,
                         updates |-> updates],
                ret |-> Bool(r[2])]
    /\ UNCHANGED <<appendLog, routed, inflight, chatSockets, sockets>>

InitCart ==
  /\ userMemoryMap \in {EmptyMap, [c \in {"c1"} |-> BackgroundMemory]}
  /\ call = NoCall
  /\ appendLog = [c \in AllChats |-> <<>>]
  /\ routed = NoRoute
  /\ inflight = NoTurns
  /\ chatSockets = NoChatSockets
  /\ sockets = NoSockets

NextCart ==
  \/ AddToCart
  \/ RemoveFromCart
  \/ ClearCart
  \/ UpdateCartItemQuantity
  \/ UpdateCartItem

SpecCart == InitCart /\ [][NextCart]_vars

(***************************************************************************)
(* Entity store (registry) and message history                             *)
(***************************************************************************)
\* String.prototype.toLowerCase on the characters the model uses
LowerChar(ch) ==
  CASE ch = "A" -> "a"
    [] ch = "C" -> "c"
    [] ch = "D" -> "d"
    [] ch = "I" -> "i"
    [] ch = "K" -> "k"
    [] ch = "T" -> "t"
    [] OTHER -> ch

toLowerCase(str) == [i \in 1..Len(str) |-> LowerChar(str[i])]

SameStoreKey(existing, item) ==
  /\ existing.type = item.type
  /\ existing.id = item.id
  /\ toLowerCase(existing.name) = toLowerCase(item.name)

\* insert x behind every element that does not sort after it (stable)
RECURSIVE InsertByLastMentioned(_, _)
InsertByLastMentioned(sorted, x) ==
  IF sorted = <<>> THEN <<x>>
  ELSE IF x.lastMentioned - Head(sorted).lastMentioned > 0
       THEN <<x>> \o sorted
       ELSE <<Head(sorted)>> \o InsertByLastMentioned(Tail(sorted), x)

\* store.sort((a, b) => b.lastMentioned - a.lastMentioned): descending, stable
RECURSIVE SortByLastMentionedDesc(_)
SortByLastMentionedDesc(store) ==
  IF store = <<>> THEN <<>>
  ELSE InsertByLastMentioned(
         SortByLastMentionedDesc(SubSeq(store, 1, Len(store) - 1)),
         store[Len(store)])

\* saveStoreItem comparing names without lower-casing them
saveStoreItem_caseSensitive(m, chatId, item) ==
  LET m1 == ensureUserMemory(m, chatId)
      store == m1[chatId].store
      Match(existing) == /\ existing.type = item.type
                         /\ existing.id = item.id
                         /\ existing.name = item.name
      existingIndex == FindIndex(store, Match)
      store1 == IF existingIndex > 0
                THEN [store EXCEPT ![existingIndex] = item]
                ELSE Append(store, item)
      store2 == IF Len(store1) > STORE_LIMIT
                THEN SubSeq(SortByLastMentionedDesc(store1), 1, STORE_LIMIT)
                ELSE store1
  IN [m1 EXCEPT ![chatId].store = store2]

\* saveStoreItem evicting the first (oldest inserted) entry on overflow
saveStoreItem_dropFirst(m, chatId, item) ==
  LET m1 == ensureUserMemory(m, chatId)
      store == m1[chatId].store
      Match(existing) == SameStoreKey(existing, item)
      existingIndex == FindIndex(store, Match)
      store1 == IF existingIndex > 0
                THEN [store EXCEPT ![existingIndex] = item]
                ELSE Append(store, item)
      store2 == IF Len(store1) > STORE_LIMIT THEN Tail(store1) ELSE store1
  IN [m1 EXCEPT ![chatId].store = store2]

saveStoreItem(m, chatId, item) ==
  LET m1 == ensureUserMemory(m, chatId)
      store == m1[chatId].store
      Match(existing) == SameStoreKey(existing, item)
      existingIndex == FindIndex(store, Match)
      store1 == IF existingIndex > 0
                THEN [store EXCEPT ![existingIndex] = item]
                ELSE Append(store, item)
      store2 == IF Len(store1) > STORE_LIMIT
                THEN SubSeq(SortByLastMentionedDesc(store1), 1, STORE_LIMIT)
                ELSE store1
  IN [m1 EXCEPT ![chatId].store = store2]

\* saveMessage evicting the newest message instead of the oldest
saveMessage_dropNewest(m, chatId, role, content) ==
  LET m1 == ensureUserMemory(m, chatId)
      pushed == Append(m1[chatId].messages, [role |-> role, content |-> content])
  IN [m1 EXCEPT ![chatId].messages =
        IF Len(pushed) > MESSAGE_LIMIT THEN SubSeq(pushed, 1, MESSAGE_LIMIT) ELSE pushed]

\* the timestamp of a message is not modelled: nothing reads it
saveMessage(m, chatId, role, content) ==
  LET m1 == ensureUserMemory(m, chatId)
      pushed == Append(m1[chatId].messages, [role |-> role, content |-> content])
  IN [m1 EXCEPT ![chatId].messages =
        IF Len(pushed) > MESSAGE_LIMIT THEN Tail(pushed) ELSE pushed]

\* a clearChatHistory that empties the whole map
clearChatHistory_all(m, chatId) == EmptyMap

clearChatHistory(m, chatId) == MapDelete(m, chatId)

\* the StoreItems saveStoreItem is called with: "Cafe" and "cafe" differ in
\* case only; the others differ from the first in type, id or name
StoreItemInputs ==
  {[type |-> k[1], id |-> k[2], name |-> k[3], lastMentioned |-> t] :
     k \in {<<"vendor", 1, <<"C", "a", "f", "e">>>>,
            <<"vendor", 1, <<"c", "a", "f", "e">>>>,
            <<"service", 1, <<"C", "a", "f", "e">>>>,
            <<"vendor", 2, <<"C", "a", "f", "e">>>>,
            <<"vendor", 1, <<"D", "i", "n", "e", "r">>>>},
     t \in 1..3}

Roles == {"user", "assistant"}
Contents == {1, 2}

SaveStoreItem ==
  \E chatId \in StoreChats, item \in StoreItemInputs :
    /\ userMemoryMap' = saveStoreItem(userMemoryMap, chatId, item)
    /\ call' = [op |-> "saveStoreItem", chatId |-> chatId,
                arg |-> [item |-> item,
                         lenBefore |-> IF chatId \in DOMAIN userMemoryMap
                                       THEN Len(userMemoryMap[chatId].store) ELSE 0],
                ret |-> "void"]
    /\ UNCHANGED <<appendLog, routed, inflight, chatSockets, sockets>>

SaveMessage ==
  \E chatId \in MessageChats, role \in Roles, content \in Contents :
    /\ Len(appendLog[chatId]) < MaxAppends
    /\ userMemoryMap' = saveMessage(userMemoryMap, chatId, role, content)
    /\ appendLog' = [appendLog EXCEPT ![chatId] =
                       Append(@, [role |-> role, content |-> content])]
    /\ call' = [op |-> "saveMessage", chatId |-> chatId,
                arg |-> [role |-> role, content |-> content], ret |-> "void"]
    /\ UNCHANGED <<routed, inflight, chatSockets, sockets>>

ClearChatHistory ==
  \E chatId \in MessageChats :
    /\ userMemoryMap' = clearChatHistory(userMemoryMap, chatId)
    /\ appendLog' = [appendLog EXCEPT ![chatId] = <<>>]
    /\ call' = [op |-> "clearChatHistory", chatId |-> chatId, arg |-> [none |-> 0],
                ret |-> "void"]
    /\ UNCHANGED <<routed, inflight, chatSockets, sockets>>

InitStore == InitCart

NextStore == SaveStoreItem

SpecStore == InitStore /\ [][NextStore]_vars

InitMessages ==
  /\ userMemoryMap = EmptyMap
  /\ call = NoCall
  /\ appendLog = [c \in AllChats |-> <<>>]
  /\ routed = NoRoute
  /\ inflight = NoTurns
  /\ chatSockets = NoChatSockets
  /\ sockets = NoSockets

NextMessages ==
  \/ SaveMessage
  \/ ClearChatHistory

SpecMessages == InitMessages /\ [][NextMessages]_vars

(***************************************************************************)
(* getChatHistory (services/memory.ts 71-82)                               *)
(***************************************************************************)
\* Array.prototype.slice(start): a negative start counts from the end, and
\* -0 is 0
slice(s, start) ==
  IF start < 0
  THEN SubSeq(s, (IF Len(s) + start > 0 THEN Len(s) + start ELSE 0) + 1, Len(s))
  ELSE SubSeq(s, (IF start < Len(s) THEN start ELSE Len(s)) + 1, Len(s))

DEFAULT_HISTORY_LIMIT == 20

\* limit is <<>> when the caller passes none
getChatHistory(m, chatId, limit) ==
  IF chatId \notin DOMAIN m THEN <<>>
  ELSE slice(m[chatId].messages,
             -(IF limit = <<>> THEN DEFAULT_HISTORY_LIMIT ELSE limit[1]))

\* the limits asked for: none, and 0 to one more than can be stored
HistoryLimits == {<<>>} \cup {<<n>> : n \in 0..(MESSAGE_LIMIT + 1)}

GetChatHistory ==
  \E chatId \in AllChats, limit \in HistoryLimits :
    /\ call' = [op |-> "getChatHistory", chatId |-> chatId, arg |-> limit,
                ret |-> getChatHistory(userMemoryMap, chatId, limit)]
    /\ UNCHANGED <<userMemoryMap, appendLog, routed, inflight, chatSockets, sockets>>

NextHistory ==
  \/ SaveMessage
  \/ ClearChatHistory
  \/ GetChatHistory

SpecHistory == InitMessages /\ [][NextHistory]_vars

(***************************************************************************)
(* Name matching of the workflows (vendorFlow/utils.ts)                    *)
(***************************************************************************)
\* String.prototype.includes
Includes(hay, needle) ==
  \E i \in 1..(Len(hay) - Len(needle) + 1) : SubSeq(hay, i, i + Len(needle) - 1) = needle

\* String.prototype.trim
RECURSIVE TrimLeft(_)
TrimLeft(str) ==
  IF str # <<>> /\ Head(str) = " " THEN TrimLeft(Tail(str)) ELSE str

RECURSIVE TrimRight(_)
TrimRight(str) ==
  IF str # <<>> /\ str[Len(str)] = " " THEN TrimRight(SubSeq(str, 1, Len(str) - 1))
  ELSE str

Trim(str) == TrimRight(TrimLeft(str))

\* replace(/\s+/g, ' '): every run of blanks becomes one blank
RECURSIVE CollapseSpaces(_)
CollapseSpaces(str) ==
  IF Len(str) < 2 THEN str
  ELSE IF str[1] = " " /\ str[2] = " " THEN CollapseSpaces(Tail(str))
       ELSE <<Head(str)>> \o CollapseSpaces(Tail(str))

normalizeServiceName(name) == CollapseSpaces(Trim(toLowerCase(name)))

\* lines 37-38 of serviceNamesMatch, on the two normalised names
NormalizedNamesMatch(normalized1, normalized2) ==
  \/ normalized1 = normalized2
  \/ Includes(normalized1, normalized2)
  \/ Includes(normalized2, normalized1)

serviceNamesMatch(name1, name2) ==
  NormalizedNamesMatch(normalizeServiceName(name1), normalizeServiceName(name2))

createCartItemFromService(service, now) ==
  Spread([serviceId |-> service.serviceId, serviceName |-> service.serviceName,
          vendorId |-> service.vendorId, vendorName |-> service.vendorName,
          price |-> service.price, quantity |-> 1, addedAt |-> now],
         IF "discount" \in DOMAIN service THEN [discount |-> service.discount]
         ELSE [c \in {} |-> 0])

\* saveMessages of vendorFlow/utils.ts: nothing without a chat id
saveMessages(m, chatId, userQuery, assistantResponse) ==
  IF chatId = <<>> \/ chatId[1] = "" THEN m
  ELSE saveMessage(saveMessage(m, chatId[1], "user", userQuery),
                   chatId[1], "assistant", assistantResponse)

getLastShownServices(m, chatId) ==
  IF chatId \in DOMAIN m THEN m[chatId].lastShownServices ELSE <<>>

getLastShownServicesWithDiscount(m, chatId) ==
  LET Discounted(service) == "discount" \in DOMAIN service /\ service.discount > 0
  IN Filter(getLastShownServices(m, chatId), Discounted)

getStoreItemsByType(m, chatId, type) ==
  IF chatId \in DOMAIN m
  THEN LET OfType(item) == item.type = type IN Filter(m[chatId].store, OfType)
  ELSE <<>>

saveLastShownServices(m, chatId, services) ==
  LET m1 == ensureUserMemory(m, chatId)
  IN [m1 EXCEPT ![chatId].lastShownServices = services]

(***************************************************************************)
(* CartWorkflow (vendorFlow/cartHandler.ts).  A context is a record; its   *)
(* optional userId / chatId / location are sequences of length 0 or 1, an  *)
(* optional quantity likewise.  Each handler yields the map it leaves and  *)
(* the FlowOutput it returns; env holds what the collaborators answered.   *)
(***************************************************************************)
Truthy(opt) == opt # <<>> /\ opt[1] # ""

Reply(voice) == [ai_voice |-> voice, markdown_text |-> voice]

\* a thrown value is a record with the fields it has among status, code
\* and message; a number is [t |-> "number", v |-> its digits], a string
\* [t |-> "string", v |-> its text]
Num(v) == [t |-> "number", v |-> v]
Str(v) == [t |-> "string", v |-> v]

\* JavaScript falsiness of an optional field
FalsyField(e, f) ==
  f \notin DOMAIN e \/ e[f] = Num("0") \/ e[f] = Str("")

\* error.a || error.b: undefined when neither is there
OrField(e, a, b) ==
  IF ~FalsyField(e, a) THEN <<e[a]>>
  ELSE IF b \in DOMAIN e THEN <<e[b]>> ELSE <<>>

\* error.message && error.message.includes(text)
MessageIncludes(e, text) ==
  "message" \in DOMAIN e /\ e.message # <<>> /\ Includes(e.message, text)

\* what the collaborator who throws in the turn, if env names it, and the
\* error it throws after the retries
Thrown(env, who) == IF who \in DOMAIN env THEN <<env[who]>> ELSE <<>>

\* a small count as the text of a template literal
CountText(n) == IF n < 10 THEN <<"0", "1", "2", "3", "4", "5", "6", "7", "8", "9">>[n + 1] ELSE "many"

\* responseRefiner 202-227: what the rows of dbResult show; nested says the
\* rows are categories holding the services
isShowingVendors(dbResult) ==
  /\ ~dbResult.nested
  /\ \E i \in 1..Len(dbResult.data) : "store_name" \in DOMAIN dbResult.data[i]

isShowingServices(dbResult) ==
  /\ ~isShowingVendors(dbResult)
  /\ \/ dbResult.nested /\ dbResult.data # <<>>
     \/ \E i \in 1..Len(dbResult.data) :
          {"name", "price"} \subseteq DOMAIN dbResult.data[i]

\* vendor.store_name || vendor.name || "Unknown" and its like for a service
RowName(row) ==
  IF "store_name" \in DOMAIN row THEN row.store_name
  ELSE IF "name" \in DOMAIN row THEN row.name ELSE <<"Unknown">>

\* formatCartMarkdown: one entry for each line of the cart
CartMarkdown(cart) ==
  [i \in 1..Len(cart) |-> [serviceName |-> cart[i].serviceName,
                           quantity |-> cart[i].quantity, price |-> cart[i].price]]

\* flatMap(category => category.services || []): rows that are not
\* categories give no service
FlattenServices(dbResult) == IF dbResult.nested THEN dbResult.data ELSE <<>>

\* responseRefiner 288-355: the reply made without the narrator
createFallbackResponse(dbResult, cart, showingServices) ==
  IF dbResult.data # <<>> /\ showingServices
  THEN [ai_voice |-> <<"I found", CountText(Len(FlattenServices(dbResult))), "services available">>,
        markdown_text |-> [heading |-> "Available Services",
                           rows |-> [i \in 1..Len(FlattenServices(dbResult)) |->
                                       RowName(FlattenServices(dbResult)[i])],
                           cart |-> CartMarkdown(cart)]]
  ELSE IF dbResult.data # <<>>
  THEN [ai_voice |-> <<"I found", CountText(Len(dbResult.data)), "vendors near you">>,
        markdown_text |-> [heading |-> "Nearby Vendors",
                           rows |-> [i \in 1..Len(dbResult.data) |->
                                       RowName(dbResult.data[i])],
                           cart |-> CartMarkdown(cart)]]
  ELSE [ai_voice |-> <<"I couldn't find any results">>,
        markdown_text |-> [heading |-> "No Results Found", rows |-> <<>>,
                           cart |-> CartMarkdown(cart)]]

\* responseRefiner 496-529: the two texts of the narrator's answer, an empty
\* one replaced by its fixed sentence
NarratorReply(voice) ==
  IF voice = <<>>
  THEN [ai_voice |-> <<"Data retrieved, but unable to generate voice response">>,
        markdown_text |-> <<"Data retrieved, but unable to generate markdown response">>]
  ELSE Reply(voice)

\* responseRefiner 421-441: the narrator is called through retryWithBackoff;
\* when that throws the fallback is returned, else the reply made of the
\* narrator's text
refineResponse(env, dbResult, cart) ==
  IF Thrown(env, "narrator") # <<>>
  THEN createFallbackResponse(dbResult, cart, isShowingServices(dbResult))
  ELSE NarratorReply(env.voice)

\* { data: cart, message: "Cart items" } refined with the cart
refineCart(env, cart) == refineResponse(env, [data |-> cart, nested |-> FALSE], cart)

NotSureReply == Reply(<<"not sure">>)
CouldNotFindReply == Reply(<<"could not find">>)
SpecifyRemoveReply == Reply(<<"specify remove">>)
SpecifyUpdateReply == Reply(<<"specify update">>)
ClearedReply == Reply(<<"cleared">>)

\* a predicate that takes every turn of a known user
CartWorkflow_canHandle_anyUser(context) ==
  Truthy(context.userId)

CartWorkflow_canHandle(context) ==
  /\ "isCartOperation" \in DOMAIN context.analysis
  /\ context.analysis.isCartOperation = TRUE
  /\ Truthy(context.userId)

isDiscountRequest(query) ==
  Includes(toLowerCase(query), <<"d", "i", "s", "c", "o", "u", "n", "t">>)

genericPatterns ==
  {<<"a", "d", "d", " ", "t", "h", "i", "s">>,
   <<"a", "d", "d", " ", "t", "h", "a", "t">>,
   <<"a", "d", "d", " ", "i", "t">>,
   <<"a", "d", "d", " ", "t", "h", "e", "m">>,
   <<"a", "d", "d", " ", "t", "h", "e", "s", "e">>,
   <<"a", "d", "d", " ", "t", "o", " ", "c", "a", "r", "t">>,
   <<"p", "u", "t", " ", "i", "n", " ", "c", "a", "r", "t">>,
   <<"a", "d", "d", " ", "i", "t", "e", "m">>,
   <<"a", "d", "d", " ", "s", "e", "r", "v", "i", "c", "e">>}

isGenericAddRequest(query) ==
  \E pattern \in genericPatterns : Includes(Trim(toLowerCase(query)), pattern)

ServiceNamesOf(analysis) ==
  IF "serviceNames" \in DOMAIN analysis THEN analysis.serviceNames ELSE <<>>

QuantitiesOf(analysis, dflt) ==
  IF "quantities" \in DOMAIN analysis THEN analysis.quantities ELSE dflt

\* quantities[i], <<>> when the index is out of range or the element null
QuantityAt(quantities, i) == IF i <= Len(quantities) THEN quantities[i] ELSE <<>>

\* q || 1 on an optional number
OrOne(q) == IF q # <<>> /\ q[1] # 0 THEN q[1] ELSE 1

\* the messages of the turn are saved with the voice of the reply
Replied(m, context, reply) ==
  [m |-> saveMessages(m, context.userId, context.userQuery, reply.ai_voice),
   out |-> reply]

handleViewCart(m, context, env) ==
  Replied(m, context, refineCart(env, context.cart))

\* handleClearCart having the narrator word the confirmation
handleClearCart_narrated(m, context, env) ==
  Replied(clearCart(m, context.userId[1]), context, refineCart(env, <<>>))

handleClearCart(m, context, env) ==
  [m |-> saveMessages(clearCart(m, context.userId[1]), context.userId,
                      context.userQuery, ClearedReply.ai_voice),
   out |-> ClearedReply]

\* s[i] as a sequence of length 0 or 1 (i = 0: no such element)
ElementAt(s, i) == IF i > 0 THEN <<s[i]>> ELSE <<>>

\* Array.prototype.find: the first element of s satisfying P, if any
FindFirst(s, P(_)) == ElementAt(s, FindIndex(s, P))

\* the reply of a handler that went through: messages saved, narration out
Narrated(m, context, env) ==
  Replied(m, context, refineCart(env, getCart(m, context.userId[1])))

\* lines 603-607: the requested name among the services shown last
FindInLastShown(m, userId, normalizedRequested) ==
  LET InShown(service) == serviceNamesMatch(service.serviceName, normalizedRequested)
  IN FindFirst(getLastShownServices(m, userId), InShown)

\* lines 620-624: the requested name among the stored services
FindInStore(m, userId, normalizedRequested) ==
  LET InStore(item) == serviceNamesMatch(item.name, normalizedRequested)
  IN FindFirst(getStoreItemsByType(m, userId, "service"), InStore)

\* lines 608-660: what one requested name contributes, given what the two
\* lookups found; vendors are the stored vendors
ResolvedName(foundService, storeService, vendors, requestedServiceName, quantity, now) ==
  LET OfVendor(v) == v.id = storeService[1].vendorId
      vendor == FindFirst(vendors, OfVendor)
  IN IF foundService # <<>>
     THEN [toAdd |-> <<[createCartItemFromService(foundService[1], now)
                          EXCEPT !.quantity = quantity]>>,
           notFound |-> <<>>]
     ELSE IF /\ storeService # <<>>
             /\ "vendorId" \in DOMAIN storeService[1]
             /\ storeService[1].vendorId # 0
     THEN [toAdd |-> <<[serviceId |-> storeService[1].id,
                        serviceName |-> storeService[1].name,
                        vendorId |-> storeService[1].vendorId,
                        vendorName |-> IF vendor # <<>> THEN vendor[1].name
                                       ELSE <<"Unknown Vendor">>,
                        price |-> 0, quantity |-> quantity, addedAt |-> now]>>,
           notFound |-> <<>>]
     ELSE [toAdd |-> <<>>, notFound |-> <<requestedServiceName>>]

\* lines 596-602: one pass of the loop; an empty name is skipped
ResolveName(m, userId, requestedServiceName, normalizedRequested, quantity, now) ==
  IF requestedServiceName = <<>> THEN [toAdd |-> <<>>, notFound |-> <<>>]
  ELSE ResolvedName(FindInLastShown(m, userId, normalizedRequested),
                    FindInStore(m, userId, normalizedRequested),
                    getStoreItemsByType(m, userId, "vendor"),
                    requestedServiceName, quantity, now)

\* the pushes of one pass before those of the later passes
PushedBefore(first, rest) ==
  [toAdd |-> first.toAdd \o rest.toAdd, notFound |-> first.notFound \o rest.notFound]

\* lines 596-661: resolve serviceNames[i..] to cart items and not-found names
RECURSIVE ResolveServicesByName(_, _, _, _, _)
ResolveServicesByName(m, userId, analysis, i, now) ==
  IF i > Len(analysis.serviceNames) THEN [toAdd |-> <<>>, notFound |-> <<>>]
  ELSE PushedBefore(
         ResolveName(m, userId, analysis.serviceNames[i],
                     normalizeServiceName(analysis.serviceNames[i]),
                     OrOne(QuantityAt(QuantitiesOf(analysis, <<>>), i)), now),
         ResolveServicesByName(m, userId, analysis, i + 1, now))

\* lines 664-668: addToCart of every resolved item, in order
RECURSIVE AddAllToCart(_, _, _, _)
AddAllToCart(m, userId, items, now) ==
  IF items = <<>> THEN m
  ELSE AddAllToCart(addToCart(m, userId, Head(items), now), userId, Tail(items), now)

handleAddServicesByName(m, context, env) ==
  IF ~Truthy(context.userId) \/ ServiceNamesOf(context.analysis) = <<>>
  THEN [m |-> m, out |-> CouldNotFindReply]
  ELSE Narrated(
         AddAllToCart(m, context.userId[1],
                      ResolveServicesByName(m, context.userId[1], context.analysis,
                                            1, env.now).toAdd,
                      env.now),
         context, env)

\* lines 470-488 and 500-520: the first of the services is added
AddFirstOf(m, context, env, services, quantity) ==
  Narrated(addToCart(m, context.userId[1],
                     [createCartItemFromService(services[1], env.now)
                        EXCEPT !.quantity = quantity],
                     env.now),
           context, env)

\* handleAddToCart looking at the generic phrases before the discount keyword
handleAddToCart_genericFirst(m, context, env) ==
  IF /\ isGenericAddRequest(context.userQuery)
     /\ Truthy(context.userId)
     /\ getLastShownServices(m, context.userId[1]) # <<>>
  THEN AddFirstOf(m, context, env, getLastShownServices(m, context.userId[1]),
                  OrOne(QuantityAt(QuantitiesOf(context.analysis, <<<<1>>>>), 1)))
  ELSE IF /\ isDiscountRequest(context.userQuery)
          /\ Truthy(context.userId)
          /\ getLastShownServicesWithDiscount(m, context.userId[1]) # <<>>
  THEN AddFirstOf(m, context, env,
                  getLastShownServicesWithDiscount(m, context.userId[1]), 1)
  ELSE IF ServiceNamesOf(context.analysis) # <<>>
  THEN handleAddServicesByName(m, context, env)
  ELSE [m |-> m, out |-> CouldNotFindReply]

handleAddToCart(m, context, env) ==
  IF /\ isDiscountRequest(context.userQuery)
     /\ Truthy(context.userId)
     /\ getLastShownServicesWithDiscount(m, context.userId[1]) # <<>>
  THEN AddFirstOf(m, context, env,
                  getLastShownServicesWithDiscount(m, context.userId[1]), 1)
  ELSE IF /\ isGenericAddRequest(context.userQuery)
          /\ Truthy(context.userId)
          /\ getLastShownServices(m, context.userId[1]) # <<>>
  THEN AddFirstOf(m, context, env, getLastShownServices(m, context.userId[1]),
                  OrOne(QuantityAt(QuantitiesOf(context.analysis, <<<<1>>>>), 1)))
  ELSE IF ServiceNamesOf(context.analysis) # <<>>
  THEN handleAddServicesByName(m, context, env)
  ELSE [m |-> m, out |-> CouldNotFindReply]

\* the first line of cart whose name matches the requested one: its index
FindIndexInCart(cart, normalizedRequested) ==
  LET InCart(item) == serviceNamesMatch(item.serviceName, normalizedRequested)
  IN FindIndex(cart, InCart)

\* lines 731-745: one pass of the remove loop, cartItem being what find gave
RemovedName(acc, userId, requestedServiceName, cartItem) ==
  IF cartItem # <<>>
  THEN [acc EXCEPT !.m = removeFromCart(@, userId, cartItem[1].serviceId,
                                        cartItem[1].vendorId),
                   !.removed = Append(@, cartItem[1].serviceName)]
  ELSE [acc EXCEPT !.notFound = Append(@, requestedServiceName)]

\* lines 727-746: context.cart is the array read when the context was built;
\* removeFromCart replaces the stored array, so the loop keeps looking at it
RECURSIVE RemoveRequested(_, _, _)
RemoveRequested(context, i, acc) ==
  IF i > Len(context.analysis.serviceNames) THEN acc
  ELSE RemoveRequested(context, i + 1,
         RemovedName(acc, context.userId[1], context.analysis.serviceNames[i],
                     ElementAt(context.cart,
                               FindIndexInCart(context.cart,
                                 normalizeServiceName(context.analysis.serviceNames[i])))))

\* x || y on two texts
OrText(x, y) == IF x # <<>> THEN x ELSE y

\* lines 752-761 and 841-849: the message the handler composes of its lists
ResponseMessage(verb, done, notFound) ==
  <<verb, done, "Could not find in cart", notFound>>

\* lines 763-776 and 851-865: the narrator is handed the query and the cart
\* read again (told: the lists handed to it, none), the messages are saved
\* with its voice, and the voice is returned, the handler's message in its
\* place when the voice is empty
VoiceOrMessage(narrated, responseMessage) ==
  Spread([narrated EXCEPT !.out.ai_voice = OrText(@, responseMessage)],
         [told |-> <<>>])

RemoveReply(r, context, env) ==
  Spread(VoiceOrMessage(Narrated(r.m, context, env),
                        ResponseMessage("Removed", r.removed, r.notFound)),
         [removed |-> r.removed, notFound |-> r.notFound])

handleRemoveFromCart(m, context, env) ==
  IF ~Truthy(context.userId) \/ ServiceNamesOf(context.analysis) = <<>>
  THEN [m |-> m, out |-> SpecifyRemoveReply, removed |-> <<>>, notFound |-> <<>>]
  ELSE RemoveReply(RemoveRequested(context, 1,
                     [m |-> m, removed |-> <<>>, notFound |-> <<>>]),
                   context, env)

\* lines 811-835: one pass of the update loop on the line at idx of snap
\* (idx = 0: no line matched); quantity is the one provided, else the line's
UpdatedLine(acc, userId, requestedServiceName, idx, quantity) ==
  IF idx = 0 THEN [acc EXCEPT !.notFound = Append(@, requestedServiceName)]
  ELSE IF quantity <= 0
  THEN [acc EXCEPT !.m = removeFromCart(@, userId, acc.snap[idx].serviceId,
                                        acc.snap[idx].vendorId),
                   !.updated = Append(@, acc.snap[idx].serviceName)]
  ELSE [acc EXCEPT !.m = updateCartItemQuantity(@, userId, acc.snap[idx].serviceId,
                                                acc.snap[idx].vendorId, quantity)[1],
                   !.snap = IF HasCartLine(acc.m, userId, acc.snap[idx].serviceId,
                                           acc.snap[idx].vendorId)
                            THEN [@ EXCEPT ![idx].quantity = quantity] ELSE @,
                   !.updated = Append(@, acc.snap[idx].serviceName)]

\* line 808: quantities[i] when provided, else the quantity of the line
QuantityOrLine(providedQuantity, snap, idx) ==
  IF providedQuantity # <<>> THEN providedQuantity[1]
  ELSE IF idx > 0 THEN snap[idx].quantity ELSE 1

\* lines 801-810: find the line, then update it
UpdatedName(acc, userId, requestedServiceName, idx, providedQuantity) ==
  IF requestedServiceName = <<>> THEN acc
  ELSE UpdatedLine(acc, userId, requestedServiceName, idx,
                   QuantityOrLine(providedQuantity, acc.snap, idx))

\* lines 799-836: acc.snap is context.cart; its items are the stored line
\* objects, so a quantity written by updateCartItemQuantity shows in it
RECURSIVE UpdateRequested(_, _, _)
UpdateRequested(context, i, acc) ==
  IF i > Len(context.analysis.serviceNames) THEN acc
  ELSE UpdateRequested(context, i + 1,
         UpdatedName(acc, context.userId[1], context.analysis.serviceNames[i],
                     FindIndexInCart(acc.snap,
                       normalizeServiceName(context.analysis.serviceNames[i])),
                     QuantityAt(QuantitiesOf(context.analysis, <<>>), i)))

UpdateReply(r, context, env) ==
  Spread(VoiceOrMessage(Narrated(r.m, context, env),
                        ResponseMessage("Updated", r.updated, r.notFound)),
         [updated |-> r.updated, notFound |-> r.notFound])

handleUpdateCart(m, context, env) ==
  IF ~Truthy(context.userId) \/ ServiceNamesOf(context.analysis) = <<>>
  THEN [m |-> m, out |-> SpecifyUpdateReply, updated |-> <<>>, notFound |-> <<>>]
  ELSE UpdateReply(UpdateRequested(context, 1,
                     [m |-> m, snap |-> context.cart, updated |-> <<>>,
                      notFound |-> <<>>]),
                   context, env)

CartActionOf(analysis) ==
  IF "cartAction" \in DOMAIN analysis THEN analysis.cartAction ELSE "undefined"

CartWorkflow_execute(m, context, env) ==
  LET cartAction == CartActionOf(context.analysis) IN
  CASE cartAction = "view" -> handleViewCart(m, context, env)
    [] cartAction = "clear" -> handleClearCart(m, context, env)
    [] cartAction = "add" -> handleAddToCart(m, context, env)
    [] cartAction = "remove" -> handleRemoveFromCart(m, context, env)
    [] cartAction = "update" -> handleUpdateCart(m, context, env)
    [] OTHER -> [m |-> m, out |-> NotSureReply]

(***************************************************************************)
(* ExplorationWorkflow (vendorFlow/explorationHandler.ts)                  *)
(***************************************************************************)
\* a broad predicate that takes every turn
ExplorationWorkflow_canHandle_any(context) ==
  "analysis" \in DOMAIN context

ExplorationWorkflow_canHandle(context) ==
  ~(/\ "isCartOperation" \in DOMAIN context.analysis
    /\ context.analysis.isCartOperation = TRUE)

\* vendor?.id || null on what find gave
IdOrNull(vendor) == IF vendor # <<>> /\ vendor[1].id # 0 THEN <<vendor[1].id>> ELSE <<>>

\* the stored vendor whose lower-cased name is searchName
FindVendorNamed(store, searchName) ==
  LET IsVendor(item) == item.type = "vendor" /\ toLowerCase(item.name) = searchName
  IN FindFirst(store, IsVendor)

\* getVendorId: exact match on the lower-cased name; vendor?.id || null
getVendorId(m, chatId, vendorName) ==
  IF chatId \in DOMAIN m
  THEN IdOrNull(FindVendorNamed(m[chatId].store, Trim(toLowerCase(vendorName))))
  ELSE <<>>

\* sorted[0] || null
FirstOrNull(sorted) == IF sorted = <<>> THEN <<>> ELSE <<sorted[1]>>

getMostRecentVendor(m, chatId) ==
  FirstOrNull(SortByLastMentionedDesc(getStoreItemsByType(m, chatId, "vendor")))

\* lines 85-97 and 266-277: every fetched vendor goes to the store
RECURSIVE SaveVendors(_, _, _, _)
SaveVendors(m, chatId, vendors, now) ==
  IF vendors = <<>> THEN m
  ELSE SaveVendors(
         IF Head(vendors).id # 0 /\ Head(vendors).store_name # <<>>
         THEN saveStoreItem(m, chatId,
                [type |-> "vendor", id |-> Head(vendors).id,
                 name |-> Head(vendors).store_name, lastMentioned |-> now])
         ELSE m,
         chatId, Tail(vendors), now)

\* lines 137-177: the services with id and name, as LastShownService
RECURSIVE ShownServices(_, _, _, _)
ShownServices(services, vendorId, vendorName, now) ==
  IF services = <<>> THEN <<>>
  ELSE (IF Head(services).id # 0 /\ Head(services).name # <<>>
        THEN <<[serviceId |-> Head(services).id, serviceName |-> Head(services).name,
                vendorId |-> vendorId, vendorName |-> vendorName,
                price |-> Head(services).price, discount |-> Head(services).discount,
                shownAt |-> now]>>
        ELSE <<>>)
       \o ShownServices(Tail(services), vendorId, vendorName, now)

\* lines 164-175: every shown service goes to the store
RECURSIVE SaveServices(_, _, _, _)
SaveServices(m, chatId, shown, now) ==
  IF shown = <<>> THEN m
  ELSE SaveServices(
         saveStoreItem(m, chatId,
           [type |-> "service", id |-> Head(shown).serviceId,
            name |-> Head(shown).serviceName, vendorId |-> Head(shown).vendorId,
            lastMentioned |-> now]),
         chatId, Tail(shown), now)

VendorNameOfAnalysis(analysis) ==
  IF "vendorName" \in DOMAIN analysis THEN analysis.vendorName ELSE <<>>

WantsServices(analysis) ==
  "wantsServices" \in DOMAIN analysis /\ analysis.wantsServices = TRUE

LocationRequiredError == [error |-> <<"location required">>]

\* client.connect() stands before the try of fetchVendorsFromDB and of
\* fetchVendorServices: when it rejects, the fetch throws and the handler
\* with it; what was written before stays. A query that fails inside the
\* try gives the empty list, which env.vendors and env.services hold.
ExploreThrew(m, env, calls, op) ==
  [m |-> m, out |-> [thrown |-> env.catalog], calls |-> calls \o <<op>>]

\* lines 251-284 (processResults): the nearby vendors go to the store
ExploreNearby(m1, chatId, env, calls) ==
  IF Thrown(env, "catalog") # <<>>
  THEN ExploreThrew(m1, env, calls, "fetchVendorsFromDB")
  ELSE
  [m |-> IF Truthy(chatId) THEN SaveVendors(m1, chatId[1], env.vendors, env.now)
         ELSE m1,
   out |-> [needsRefinement |-> TRUE, data |-> env.vendors,
            isShowingServices |-> FALSE],
   calls |-> calls \o <<"fetchVendorsFromDB">>]

\* lines 182-184: the shown services replace lastShownServices when there
\* is at least one
LastShownSaved(m2, chatId, shown) ==
  IF shown # <<>> THEN saveLastShownServices(m2, chatId, shown) ELSE m2

\* lines 125-248: the services of the vendor are fetched, stored and shown
ExploreServices(m1, chatId, env, shown, calls) ==
  IF Thrown(env, "catalog") # <<>>
  THEN ExploreThrew(m1, env, calls, "fetchVendorServices")
  ELSE
  [m |-> LastShownSaved(SaveServices(m1, chatId, shown, env.now), chatId, shown),
   out |-> [needsRefinement |-> TRUE, data |-> env.services,
            isShowingServices |-> TRUE],
   calls |-> calls \o <<"fetchVendorServices">>]

\* lines 36-52: the vendor id the store gives, for the named vendor or else
\* for the most recent one
StoreVendorId(m, chatId, vendorName, recent) ==
  IF vendorName # <<>> THEN getVendorId(m, chatId, vendorName) ELSE IdOrNull(recent)

\* lines 99-104: the fetched vendor whose name contains, or is contained in,
\* the requested one
FuzzyNames(storeName, normalizedVendorName) ==
  \/ Includes(storeName, normalizedVendorName)
  \/ Includes(normalizedVendorName, storeName)

FindFuzzyVendor(vendors, normalizedVendorName) ==
  LET Fuzzy(v) == FuzzyNames(toLowerCase(v.store_name), normalizedVendorName)
  IN FindFirst(vendors, Fuzzy)

\* lines 36-52, 61-68, 106-108: the name the services are shown under
ActualVendorName(fromStore, foundVendor, storeVendor, vendorName, recent) ==
  IF foundVendor # <<>> /\ fromStore = <<>> THEN foundVendor[1].store_name
  ELSE IF storeVendor # <<>> THEN storeVendor[1].name
  ELSE IF vendorName # <<>> THEN vendorName
  ELSE IF recent # <<>> /\ recent[1].name # <<>> THEN recent[1].name
  ELSE <<"Unknown">>

\* the stored vendor of that id
FindStoreVendor(m, chatId, vendorId) ==
  LET OfId(v) == v.id = vendorId[1]
  IN FindFirst(getStoreItemsByType(m, chatId, "vendor"), OfId)

\* lines 117-249: with a vendor id its services are shown, without one the
\* handler falls through to the nearby vendors
ExploreResolved(m, m1, context, env, vendorName, recent, fromStore, foundVendor, vendorId, calls) ==
  IF vendorId # <<>>
  THEN ExploreServices(m1, context.chatId[1], env,
         ShownServices(env.services, vendorId[1],
           ActualVendorName(fromStore, foundVendor,
                            FindStoreVendor(m, context.chatId[1], vendorId),
                            vendorName, recent),
           env.now),
         calls)
  ELSE ExploreNearby(m1, context.chatId, env, calls)

\* ExploreFetched asking the catalog for the nearby vendors whenever a
\* vendor is named, whatever the store gave
ExploreFetched_catalogFirst(m, context, env, vendorName, recent, fromStore) ==
  IF vendorName # <<>>
  THEN ExploreResolved(m, SaveVendors(m, context.chatId[1], env.vendors, env.now),
         context, env, vendorName, recent, <<>>,
         FindFuzzyVendor(env.vendors, Trim(toLowerCase(vendorName))),
         IdOrNull(FindFuzzyVendor(env.vendors, Trim(toLowerCase(vendorName)))),
         <<"fetchVendorsFromDB">>)
  ELSE ExploreResolved(m, m, context, env, vendorName, recent, fromStore, <<>>,
                       fromStore, <<>>)

\* lines 70-115: a named vendor the store does not know is looked for among
\* the fetched vendors, which are stored first
ExploreFetched(m, context, env, vendorName, recent, fromStore) ==
  IF fromStore = <<>> /\ vendorName # <<>> /\ Thrown(env, "catalog") # <<>>
  THEN ExploreThrew(m, env, <<>>, "fetchVendorsFromDB")
  ELSE IF fromStore = <<>> /\ vendorName # <<>>
  THEN ExploreResolved(m, SaveVendors(m, context.chatId[1], env.vendors, env.now),
         context, env, vendorName, recent, fromStore,
         FindFuzzyVendor(env.vendors, Trim(toLowerCase(vendorName))),
         IdOrNull(FindFuzzyVendor(env.vendors, Trim(toLowerCase(vendorName)))),
         <<"fetchVendorsFromDB">>)
  ELSE ExploreResolved(m, m, context, env, vendorName, recent, fromStore, <<>>,
                       fromStore, <<>>)

\* lines 32-52: the vendor branch
ExploreVendor(m, context, env, vendorName, recent) ==
  ExploreFetched(m, context, env, vendorName, recent,
                 StoreVendorId(m, context.chatId[1], vendorName, recent))

ExplorationWorkflow_execute(m, context, env) ==
  IF context.location = <<>>
  THEN [m |-> m, out |-> LocationRequiredError, calls |-> <<>>]
  ELSE IF /\ Truthy(context.chatId)
          /\ VendorNameOfAnalysis(context.analysis) # <<>>
             \/ WantsServices(context.analysis)
  THEN ExploreVendor(m, context, env, VendorNameOfAnalysis(context.analysis),
                     getMostRecentVendor(m, context.chatId[1]))
  ELSE ExploreNearby(m, context.chatId, env, <<>>)

(***************************************************************************)
(* WorkflowRouter (vendorFlow/workflowRouter.ts)                           *)
(***************************************************************************)
\* vendorFlow/context.ts: userId and chatId are copied when defined, the
\* cart is the one stored under input.userId; context.input and
\* context.chatHistory are read by no handler and are left out
buildWorkflowContext(m, input, userQuery, analysis, location) ==
  [userQuery |-> userQuery, analysis |-> analysis, location |-> location,
   cart |-> IF Truthy(input.userId) THEN getCart(m, input.userId[1]) ELSE <<>>,
   userId |-> input.userId, chatId |-> input.chatId]

\* the other buildWorkflowContext of the repository: only chatId is copied,
\* the cart is the one stored under input.chatId
buildWorkflowContextChatId(m, input, userQuery, analysis, location) ==
  [userQuery |-> userQuery, analysis |-> analysis, location |-> location,
   cart |-> IF Truthy(input.chatId) THEN getCart(m, input.chatId[1]) ELSE <<>>,
   userId |-> <<>>, chatId |-> input.chatId]

\* the two handlers registered the other way round
RegisteredHandlers_reversed == <<"ExplorationWorkflow", "CartWorkflow">>

\* the constructor's handler list, in registration order
RegisteredHandlers == <<"CartWorkflow", "ExplorationWorkflow">>

canHandle(handler, context) ==
  IF handler = "CartWorkflow" THEN CartWorkflow_canHandle(context)
  ELSE ExplorationWorkflow_canHandle(context)

execute(handler, m, context, env) ==
  IF handler = "CartWorkflow" THEN CartWorkflow_execute(m, context, env)
  ELSE ExplorationWorkflow_execute(m, context, env)

\* what route leaves when the handler executed and returned r; removed and
\* notFound are the remove handler's lists, told the lists it handed on
Returned(handler, consulted, r) ==
  [m |-> r.m, consulted |-> Append(consulted, handler),
   executed |-> <<[handler |-> handler, out |-> r.out]>>, result |-> <<r.out>>,
   calls |-> IF "calls" \in DOMAIN r THEN r.calls ELSE <<>>,
   removed |-> IF "removed" \in DOMAIN r THEN r.removed ELSE <<>>,
   notFound |-> IF "notFound" \in DOMAIN r THEN r.notFound ELSE <<>>,
   told |-> IF "told" \in DOMAIN r THEN r.told ELSE <<>>]

\* the for loop of route from handler i on; consulted lists the handlers
\* whose canHandle was called, executed the handlers whose execute was
\* called with what each returned; result is <<>> for null
RECURSIVE RouteFrom(_, _, _, _, _, _)
RouteFrom(handlers, i, m, context, env, consulted) ==
  IF i > Len(handlers)
  THEN [m |-> m, consulted |-> consulted, executed |-> <<>>, result |-> <<>>,
        calls |-> <<>>, removed |-> <<>>, notFound |-> <<>>, told |-> <<>>]
  ELSE IF canHandle(handlers[i], context)
       THEN Returned(handlers[i], consulted, execute(handlers[i], m, context, env))
       ELSE RouteFrom(handlers, i + 1, m, context, env, Append(consulted, handlers[i]))

route(handlers, m, context, env) == RouteFrom(handlers, 1, m, context, env, <<>>)

(***************************************************************************)
(* One call of WorkflowRouter.route on a context built from a request      *)
(***************************************************************************)
TeaRow == [id |-> 1, name |-> <<"T", "e", "a">>, price |-> 10, discount |-> 0]
IcedTeaRow == [id |-> 2, name |-> <<"I", "c", "e", "d", " ", "T", "e", "a">>, price |-> 20, discount |-> 5]
CafeRow == [id |-> 1, store_name |-> <<"C", "a", "f", "e">>]
DinerRow == [id |-> 2, store_name |-> <<"D", "i", "n", "e", "r">>]

\* what the narrator may answer (refineResponse always returns a reply)
Voices == {<<>>, <<"o", "k">>}

Queries == {<<"a", "d", "d", " ", "i", "t">>, <<"A", "d", "d", " ", "T", "e", "a">>, <<"a", "d", "d", " ", "d", "i", "s", "c", "o", "u", "n", "t">>, <<"m", "e", "n", "u">>}

UserIdInputs == {<<>>, <<"">>, <<"c1">>}
ChatIdInputs == {<<>>, <<"c1">>}
LocationInputs == {<<>>, <<[latitude |-> 26, longitude |-> 80, name |-> <<"K">>]>>}

\* classified intents with isCartOperation = true
CartAnalyses ==
  {[isCartOperation |-> TRUE],
   [isCartOperation |-> TRUE, cartAction |-> "view"],
   [isCartOperation |-> TRUE, cartAction |-> "clear"],
   [isCartOperation |-> TRUE, cartAction |-> "add"],
   [isCartOperation |-> TRUE, cartAction |-> "add", serviceNames |-> <<<<"t", "e", "a">>>>],
   [isCartOperation |-> TRUE, cartAction |-> "add", serviceNames |-> <<<<"t", "e", "a">>>>,
    quantities |-> <<<<2>>>>],
   [isCartOperation |-> TRUE, cartAction |-> "add", serviceNames |-> <<<<"t", "e", "a">>>>,
    quantities |-> <<<<-1>>>>],
   [isCartOperation |-> TRUE, cartAction |-> "add",
    serviceNames |-> <<<<"c", "o", "f", "f", "e", "e">>, <<"I", "c", "e", "d", " ", " ", "T", "e", "a">>>>, quantities |-> <<<<>>, <<2>>>>],
   [isCartOperation |-> TRUE, cartAction |-> "remove"],
   [isCartOperation |-> TRUE, cartAction |-> "remove", serviceNames |-> <<<<"t", "e", "a">>>>],
   [isCartOperation |-> TRUE, cartAction |-> "remove",
    serviceNames |-> <<<<"I", "c", "e", "d", " ", " ", "T", "e", "a">>, <<"c", "o", "f", "f", "e", "e">>>>],
   [isCartOperation |-> TRUE, cartAction |-> "update", serviceNames |-> <<<<"t", "e", "a">>>>],
   [isCartOperation |-> TRUE, cartAction |-> "update", serviceNames |-> <<<<"t", "e", "a">>>>,
    quantities |-> <<<<0>>>>],
   [isCartOperation |-> TRUE, cartAction |-> "update", serviceNames |-> <<<<"I", "c", "e", "d", " ", " ", "T", "e", "a">>>>,
    quantities |-> <<<<2>>>>]}

\* classified intents with isCartOperation false or unset
ExploreAnalyses ==
  {[queryType |-> "vendors"],
   [isCartOperation |-> FALSE],
   [isCartOperation |-> FALSE, cartAction |-> "add", serviceNames |-> <<<<"t", "e", "a">>>>],
   [isCartOperation |-> FALSE, wantsServices |-> TRUE],
   [isCartOperation |-> FALSE, vendorName |-> <<"c", "a", "f", "e">>],
   [isCartOperation |-> FALSE, vendorName |-> <<"D", "i", "n">>, wantsServices |-> TRUE]}

CartsInRange(m) ==
  \A c \in DOMAIN m : Len(m[c].cart) <= MaxCartLen /\ QtyInRange(m[c].cart)

IsCartFlag(analysis) ==
  "isCartOperation" \in DOMAIN analysis /\ analysis.isCartOperation = TRUE

RouteAs(context, env, arg) ==
  /\ routed.n < MaxTurns
  /\ \E r \in {route(RegisteredHandlers, userMemoryMap, context, env)} :
     /\ CartsInRange(r.m)
     /\ userMemoryMap' = r.m
     /\ routed' = [n |-> routed.n + 1,
                   cartFlag |-> IsCartFlag(context.analysis),
                   userIdGiven |-> Truthy(context.userId),
                   can |-> [h \in {"CartWorkflow", "ExplorationWorkflow"} |->
                              canHandle(h, context)],
                   outs |-> [h \in {"CartWorkflow", "ExplorationWorkflow"} |->
                               IF canHandle(h, context)
                               THEN execute(h, userMemoryMap, context, env).out
                               ELSE NoOutput],
                   consulted |-> r.consulted, executed |-> r.executed,
                   result |-> r.result,
                   reversed |-> route(RegisteredHandlers_reversed, userMemoryMap,
                                      context, env).executed]
     /\ call' = [op |-> "route", chatId |-> "", arg |-> arg, ret |-> "void"]
     /\ UNCHANGED <<appendLog, inflight, chatSockets, sockets>>

Route(context, env) == RouteAs(context, env, [none |-> 0])

\* the contexts either buildWorkflowContext of the repository makes of a
\* request; the one that copies only chatId does not read input.userId
Contexts(userIds, chatId, userQuery, analysis, location) ==
  {buildWorkflowContext(userMemoryMap, [userId |-> userId, chatId |-> chatId],
                        userQuery, analysis, location) : userId \in userIds}
  \cup {buildWorkflowContextChatId(userMemoryMap, [userId |-> <<>>, chatId |-> chatId],
                                   userQuery, analysis, location)}

\* the query texts of cart turns: the three add tiers read the text, the
\* other cart actions only store it
CartTurnInputs ==
  {<<a, q>> \in CartAnalyses \X Queries :
     \/ ("cartAction" \in DOMAIN a /\ a.cartAction = "add" /\ q # <<"m", "e", "n", "u">>)
     \/ (~("cartAction" \in DOMAIN a /\ a.cartAction = "add") /\ q = <<"m", "e", "n", "u">>)}

\* what the catalog answers in one turn: <<nearby vendors, services>>
CatalogAnswers ==
  {<<<<>>, <<>>>>,
   <<<<CafeRow>>, <<>>>>,
   <<<<CafeRow>>, <<TeaRow>>>>,
   <<<<>>, <<IcedTeaRow, TeaRow>>>>,
   <<<<CafeRow, DinerRow>>, <<IcedTeaRow, TeaRow>>>>}

\* a turn the classifier flagged as a cart operation; the catalog is not
\* reached by the cart handlers, its answers are left empty
RouteCartTurn ==
  \E chatId \in ChatIdInputs, turn \in CartTurnInputs,
     location \in LocationInputs, voice \in Voices, now \in Times :
    \E context \in Contexts(UserIdInputs, chatId, turn[2], turn[1], location) :
      Route(context, [voice |-> voice, now |-> now, vendors |-> <<>>,
                      services |-> <<>>])

\* a turn not flagged as a cart operation; the narrator is called by the
\* flow after route returns, not by the exploration handler
RouteExploreTurn ==
  \E chatId \in ChatIdInputs, analysis \in ExploreAnalyses,
     location \in LocationInputs, catalog \in CatalogAnswers, now \in Times :
    \E context \in Contexts({<<>>, <<"c1">>}, chatId, <<"m", "e", "n", "u">>,
                            analysis, location) :
      Route(context, [voice |-> <<>>, now |-> now, vendors |-> catalog[1],
                      services |-> catalog[2]])

\* a record as earlier turns leave it: services shown, entities stored
ShownMemory ==
  [messages |-> <<>>,
   location |-> <<[latitude |-> 26, longitude |-> 80, name |-> <<"K">>]>>,
   store |-> <<[type |-> "vendor", id |-> 1, name |-> <<"C", "a", "f", "e">>, lastMentioned |-> 1],
               [type |-> "service", id |-> 2, name |-> <<"I", "c", "e", "d", " ", "T", "e", "a">>, vendorId |-> 1,
                lastMentioned |-> 1]>>,
   cart |-> <<>>,
   lastServicePage |-> 0,
   lastShownServices |->
     <<[serviceId |-> 1, serviceName |-> <<"T", "e", "a">>, vendorId |-> 1,
        vendorName |-> <<"C", "a", "f", "e">>, price |-> 10, discount |-> 0, shownAt |-> 1]>>]

InitRoute ==
  /\ userMemoryMap \in {EmptyMap, [c \in {"c1"} |-> ShownMemory]}
  /\ call = NoCall
  /\ appendLog = [c \in AllChats |-> <<>>]
  /\ routed = NoRoute
  /\ inflight = NoTurns
  /\ chatSockets = NoChatSockets
  /\ sockets = NoSockets

NextRoute ==
  \/ RouteCartTurn
  \/ RouteExploreTurn

SpecRoute == InitRoute /\ [][NextRoute]_vars

(***************************************************************************)
(* Cart add turns between exploration turns of one conversation            *)
(***************************************************************************)
\* classified intents of add turns
AddAnalyses ==
  {[isCartOperation |-> TRUE, cartAction |-> "add"],
   [isCartOperation |-> TRUE, cartAction |-> "add", serviceNames |-> <<<<"t", "e", "a">>>>],
   [isCartOperation |-> TRUE, cartAction |-> "add", serviceNames |-> <<<<"t", "e", "a">>>>,
    quantities |-> <<<<2>>>>],
   [isCartOperation |-> TRUE, cartAction |-> "add",
    serviceNames |-> <<<<"c", "o", "f", "f", "e", "e">>, <<"i", "c", "e", "d">>>>],
   [isCartOperation |-> TRUE, cartAction |-> "add",
    serviceNames |-> <<<<"c", "o", "f", "f", "e", "e">>, <<"t", "e", "a">>>>,
    quantities |-> <<<<>>, <<2>>>>],
   [isCartOperation |-> TRUE, cartAction |-> "add",
    serviceNames |-> <<<<"c", "o", "f", "f", "e", "e">>, <<"t", "e", "a">>>>,
    quantities |-> <<<<2>>>>],
   [isCartOperation |-> TRUE, cartAction |-> "add", serviceNames |-> <<<<"t", "e", "a">>>>,
    quantities |-> <<<<0>>>>]}

\* the request texts of add turns
AddQueries ==
  (Queries \ {<<"m", "e", "n", "u">>})
  \cup {<<"a", "d", "d", " ", "i", "t", " ", "d", "i", "s", "c", "o", "u", "n", "t">>}

\* an add turn of conversation c1; call.arg keeps what the turn was given
RouteAddTurn ==
  \E userQuery \in AddQueries, analysis \in AddAnalyses, now \in Times :
    \E context \in {buildWorkflowContext(userMemoryMap,
                                         [userId |-> <<"c1">>, chatId |-> <<"c1">>],
                                         userQuery, analysis, <<>>)} :
      RouteAs(context, [voice |-> <<"o", "k">>, now |-> now, vendors |-> <<>>,
                        services |-> <<>>],
              [userId |-> context.userId, userQuery |-> userQuery,
               analysis |-> analysis])

NextAdd ==
  \/ RouteAddTurn
  \/ RouteExploreTurn

SpecAdd == InitRoute /\ [][NextAdd]_vars

(***************************************************************************)
(* Cart view, clear, remove and update turns of one conversation           *)
(***************************************************************************)
IcedTeaName == <<"I", "c", "e", "d", " ", "T", "e", "a">>
TeaName == <<"T", "e", "a">>
CoffeeName == <<"c", "o", "f", "f", "e", "e">>

\* classified intents of the turns that read or edit the cart
EditAnalyses ==
  {[isCartOperation |-> TRUE, cartAction |-> "view"],
   [isCartOperation |-> TRUE, cartAction |-> "clear"],
   [isCartOperation |-> TRUE, cartAction |-> "remove", serviceNames |-> <<<<"t", "e", "a">>>>],
   [isCartOperation |-> TRUE, cartAction |-> "remove", serviceNames |-> <<CoffeeName>>],
   [isCartOperation |-> TRUE, cartAction |-> "remove",
    serviceNames |-> <<<<"I", "c", "e", "d", " ", " ", "T", "e", "a">>, CoffeeName>>],
   [isCartOperation |-> TRUE, cartAction |-> "remove",
    serviceNames |-> <<TeaName, TeaName>>],
   [isCartOperation |-> TRUE, cartAction |-> "update", serviceNames |-> <<TeaName>>],
   [isCartOperation |-> TRUE, cartAction |-> "update", serviceNames |-> <<TeaName>>,
    quantities |-> <<<<0>>>>],
   [isCartOperation |-> TRUE, cartAction |-> "update", serviceNames |-> <<TeaName>>,
    quantities |-> <<<<2>>>>],
   [isCartOperation |-> TRUE, cartAction |-> "update",
    serviceNames |-> <<CoffeeName, TeaName>>,
    quantities |-> <<<<2>>, <<2>>>>],
   [isCartOperation |-> TRUE, cartAction |-> "update",
    serviceNames |-> <<<<"i", "c", "e", "d">>, TeaName>>,
    quantities |-> <<<<>>, <<-1>>>>],
   [isCartOperation |-> TRUE, cartAction |-> "update",
    serviceNames |-> <<TeaName, TeaName>>, quantities |-> <<<<0>>, <<2>>>>]}

\* the intents of the add turns that fill the cart
FillAnalyses ==
  {[isCartOperation |-> TRUE, cartAction |-> "add", serviceNames |-> <<TeaName>>],
   [isCartOperation |-> TRUE, cartAction |-> "add",
    serviceNames |-> <<TeaName, <<"i", "c", "e", "d">>>>,
    quantities |-> <<<<>>, <<2>>>>]}

EditQueries == {<<"m", "e", "n", "u">>, <<"c", "a", "r", "t">>}

\* the record of c1 after the services of a vendor were shown on page 1
PagedMemory == [ShownMemory EXCEPT !.lastServicePage = 1]

\* a turn of conversation c1 with a cart intent; call.arg keeps what the
\* turn was given, the cart the context was built with, and the lists the
\* handler made of the names it did not match
RouteCartAs(context, env, r) ==
  RouteAs(context, env,
          [userId |-> context.userId, userQuery |-> context.userQuery,
           analysis |-> context.analysis, cart |-> context.cart,
           narratorThrew |-> Thrown(env, "narrator") # <<>>, voice |-> env.voice,
           removed |-> r.removed, notFound |-> r.notFound, told |-> r.told])

\* what the narrator does when a turn calls it: an empty text, a text, or
\* an error thrown
EditNarrations ==
  {[voice |-> <<>>], [voice |-> <<"o", "k">>],
   [voice |-> <<>>, narrator |-> [message |-> <<"b", "a", "d">>]]}

RouteEditTurn ==
  \E userQuery \in EditQueries, analysis \in EditAnalyses, narration \in EditNarrations :
    \E context \in {buildWorkflowContext(userMemoryMap,
                                         [userId |-> <<"c1">>, chatId |-> <<"c1">>],
                                         userQuery, analysis, <<>>)} :
      \E env \in {Spread([now |-> 1, vendors |-> <<>>, services |-> <<>>], narration)} :
        RouteCartAs(context, env, route(RegisteredHandlers, userMemoryMap, context, env))

RouteFillTurn ==
  \E analysis \in FillAnalyses :
    \E context \in {buildWorkflowContext(userMemoryMap,
                                         [userId |-> <<"c1">>, chatId |-> <<"c1">>],
                                         <<"m", "e", "n", "u">>, analysis, <<>>)} :
      \E env \in {[voice |-> <<"o", "k">>, now |-> 1, vendors |-> <<>>,
                    services |-> <<>>]} :
        RouteCartAs(context, env, route(RegisteredHandlers, userMemoryMap, context, env))

InitEdit ==
  /\ userMemoryMap \in {EmptyMap, [c \in {"c1"} |-> PagedMemory]}
  /\ call = NoCall
  /\ appendLog = [c \in AllChats |-> <<>>]
  /\ routed = NoRoute
  /\ inflight = NoTurns
  /\ chatSockets = NoChatSockets
  /\ sockets = NoSockets

NextEdit ==
  \/ RouteFillTurn
  \/ RouteEditTurn

SpecEdit == InitEdit /\ [][NextEdit]_vars

(***************************************************************************)
(* Exploration turns that name a vendor or ask for services                *)
(***************************************************************************)
\* classified intents of exploration turns
ResolveAnalyses ==
  {[queryType |-> "vendors"],
   [isCartOperation |-> FALSE, wantsServices |-> TRUE],
   [isCartOperation |-> FALSE, vendorName |-> <<"c", "a", "f", "e">>],
   [isCartOperation |-> FALSE, vendorName |-> <<"D", "i", "n">>],
   [isCartOperation |-> FALSE, vendorName |-> <<"D", "i", "n">>, wantsServices |-> TRUE],
   [isCartOperation |-> FALSE, vendorName |-> <<"z", "o", "o">>]}

\* what the catalog answers in one turn: <<nearby vendors, services>>
ResolveCatalogs ==
  {<<<<>>, <<>>>>,
   <<<<DinerRow>>, <<TeaRow>>>>,
   <<<<CafeRow, DinerRow>>, <<>>>>,
   <<<<CafeRow, DinerRow>>, <<TeaRow>>>>}

\* an exploration turn; the clock of the turn is after every time stored;
\* call.arg keeps what the turn was given and the fetches it made, in order
RouteResolveAs(context, env, r) ==
  RouteAs(context, env,
          [chatId |-> context.chatId, analysis |-> context.analysis,
           location |-> context.location, vendors |-> env.vendors,
           services |-> env.services, now |-> env.now, calls |-> r.calls])

RouteResolveTurn ==
  \E chatId \in ChatIdInputs, analysis \in ResolveAnalyses,
     location \in LocationInputs, catalog \in ResolveCatalogs :
    \E context \in {buildWorkflowContext(userMemoryMap,
                                         [userId |-> <<>>, chatId |-> chatId],
                                         <<"m", "e", "n", "u">>, analysis, location)} :
      \E env \in {[voice |-> <<>>, now |-> routed.n + 2, vendors |-> catalog[1],
                    services |-> catalog[2]]} :
        RouteResolveAs(context, env, route(RegisteredHandlers, userMemoryMap, context, env))

NextResolve ==
  \/ RouteResolveTurn

SpecResolve == InitRoute /\ [][NextResolve]_vars

(***************************************************************************)
(* nearbyVendorsFlow (vendorFlow/index.ts): one turn of a conversation.    *)
(* An input is a record whose optional chatId, userId, locationName,       *)
(* latitude and longitude are sequences of length 0 or 1; env holds what   *)
(* the collaborators answer in the turn (geocode = <<>>: the geocoder      *)
(* throws).                                                                *)
(***************************************************************************)
getUserLocation(m, chatId) ==
  IF chatId \in DOMAIN m THEN m[chatId].location ELSE <<>>

\* a saveUserLocation that keeps a location already saved
saveUserLocation_keepFirst(m, chatId, location) ==
  IF getUserLocation(m, chatId) # <<>> THEN m
  ELSE [ensureUserMemory(m, chatId) EXCEPT ![chatId].location = <<location>>]

saveUserLocation(m, chatId, location) ==
  [ensureUserMemory(m, chatId) EXCEPT ![chatId].location = <<location>>]

clearUserLocation(m, chatId) ==
  IF chatId \in DOMAIN m THEN [m EXCEPT ![chatId].location = <<>>] ELSE m

\* !!x on an optional number, on an optional string
NumberGiven(opt) == opt # <<>> /\ opt[1] # 0
NameGiven(opt) == opt # <<>> /\ opt[1] # <<>>

\* a || b on optional strings
OrName(a, b) == IF NameGiven(a) THEN a ELSE b

DEFAULT_LOCATION == <<"K", "a", "n", "p", "u", "r">>

\* a loadUserContext that finds no saved location
loadUserContext_forgetful(m, chatId) == <<>>

\* loadUserContext: the saved location of the chat
loadUserContext(m, chatId) ==
  IF Truthy(chatId) THEN getUserLocation(m, chatId[1]) ELSE <<>>

\* getLocationCoordinates; locationName is analysis.locationName ||
\* input.locationName, put into the input by handleLocation; asked tells
\* that the geocoder was called
getLocationCoordinates(input, locationName, analysis, env) ==
  IF ~(analysis.needsLocation \/ NumberGiven(input.latitude) \/ NumberGiven(input.longitude))
  THEN [threw |-> FALSE, asked |-> FALSE, location |-> <<>>]
  ELSE IF NumberGiven(input.latitude) /\ NumberGiven(input.longitude)
  THEN [threw |-> FALSE, asked |-> FALSE,
        location |-> <<[latitude |-> input.latitude[1], longitude |-> input.longitude[1],
                        name |-> OrName(OrName(locationName, analysis.locationName),
                                        <<<<"Unknown Location">>>>)[1]]>>]
  ELSE IF env.geocode = <<>> THEN [threw |-> TRUE, asked |-> TRUE, location |-> <<>>]
  ELSE [threw |-> FALSE, asked |-> TRUE,
        location |-> <<[latitude |-> env.geocode[1].latitude,
                        longitude |-> env.geocode[1].longitude,
                        name |-> OrName(OrName(locationName, analysis.locationName),
                                        <<DEFAULT_LOCATION>>)[1]]>>]

\* lines 230-243 of handleLocation: a location just found is saved; saved
\* tells that saveUserLocation was called
LocationSaved(m, chatId, got) ==
  [m |-> IF got.location # <<>> /\ Truthy(chatId)
         THEN saveUserLocation(m, chatId[1], got.location[1]) ELSE m,
   location |-> got.location, threw |-> got.threw, asked |-> got.asked,
   saved |-> got.location # <<>> /\ Truthy(chatId)]

\* handleLocation without its early return: the geocoder is always asked
handleLocation_alwaysGeocode(m, input, analysis, savedLocation, env) ==
  IF savedLocation # <<>>
  THEN [m |-> m, location |-> savedLocation, threw |-> FALSE, asked |-> FALSE,
        saved |-> FALSE]
  ELSE LocationSaved(m, input.chatId,
         getLocationCoordinates(input, OrName(analysis.locationName, input.locationName),
                                analysis, env))

handleLocation(m, input, analysis, savedLocation, env) ==
  IF /\ analysis.needsLocation = TRUE
     /\ ~(NumberGiven(input.latitude) \/ NumberGiven(input.longitude)
          \/ NameGiven(input.locationName))
     /\ savedLocation = <<>>
     /\ ~NameGiven(analysis.locationName)
  THEN [m |-> m, location |-> <<>>, threw |-> FALSE, asked |-> FALSE, saved |-> FALSE]
  ELSE IF savedLocation # <<>>
  THEN [m |-> m, location |-> savedLocation, threw |-> FALSE, asked |-> FALSE,
        saved |-> FALSE]
  ELSE LocationSaved(m, input.chatId,
         getLocationCoordinates(input, OrName(analysis.locationName, input.locationName),
                                analysis, env))

LocationRequestResponse == Reply(<<"share location">>)
UnableError == [error |-> <<"unable">>]

\* error?.code || error?.status equal to a number, to a text
ErrorCodeIs(error, v) == OrField(error, "code", "status") = <<v>>

HighDemandMessage == <<"I'm currently experiencing high demand">>
TooManyRequestsMessage == <<"Too many requests">>
ConnectingMessage == <<"I'm having trouble connecting right now">>
IssueMessage == <<"I encountered an issue processing your request">>

\* a conversion that hands the message of the error to the user
getUserFriendlyErrorMessage_raw(error) ==
  IF "message" \in DOMAIN error /\ error.message # <<>> THEN error.message
  ELSE IssueMessage

\* lines 131-167
getUserFriendlyErrorMessage(error) ==
  IF \/ ErrorCodeIs(error, Num("503"))
     \/ ErrorCodeIs(error, Str("UNAVAILABLE"))
     \/ MessageIncludes(error, <<"o", "v", "e", "r", "l", "o", "a", "d", "e", "d">>)
     \/ MessageIncludes(error, <<"5", "0", "3">>)
     \/ MessageIncludes(error, <<"S", "e", "r", "v", "i", "c", "e", " ", "U", "n", "a", "v", "a", "i", "l", "a", "b", "l", "e">>)
  THEN HighDemandMessage
  ELSE IF \/ ErrorCodeIs(error, Num("429"))
          \/ MessageIncludes(error, <<"4", "2", "9">>)
          \/ MessageIncludes(error, <<"r", "a", "t", "e", " ", "l", "i", "m", "i", "t">>)
  THEN TooManyRequestsMessage
  ELSE IF \/ MessageIncludes(error, <<"f", "e", "t", "c", "h">>)
          \/ MessageIncludes(error, <<"n", "e", "t", "w", "o", "r", "k">>)
          \/ MessageIncludes(error, <<"E", "C", "O", "N", "N", "R", "E", "F", "U", "S", "E", "D">>)
          \/ MessageIncludes(error, <<"t", "i", "m", "e", "o", "u", "t">>)
  THEN ConnectingMessage
  ELSE IssueMessage

\* lines 107-124: the output of the catch of the flow
FriendlyError(error) ==
  [error |-> getUserFriendlyErrorMessage(error),
   ai_voice |-> getUserFriendlyErrorMessage(error),
   markdown_text |-> <<"Unable to Process Request">> \o getUserFriendlyErrorMessage(error)]

\* tools/findLocation: what the geocoder throws when env gives no error
GeocoderError(env) ==
  IF Thrown(env, "geocoder") # <<>> THEN env.geocoder
  ELSE [message |-> <<"N", "o", " ", "r", "e", "s", "u", "l", "t", "s">>]

\* the flow caught error: nothing after the throw is done
FlowCaught(m, error, calls, executed) ==
  [m |-> m, out |-> FriendlyError(error), calls |-> calls, executed |-> executed,
   located |-> <<>>, reached |-> "caught"]

\* createLocationRequestResponse: the two messages are saved under chatId
createLocationRequestResponse(m, userQuery, chatId) ==
  [m |-> IF Truthy(chatId)
         THEN saveMessage(saveMessage(m, chatId[1], "user", userQuery),
                          chatId[1], "assistant", LocationRequestResponse.ai_voice)
         ELSE m,
   out |-> LocationRequestResponse, calls |-> <<>>, executed |-> <<>>,
   located |-> <<>>, reached |-> "locationRequest"]

\* finalResult.ai_voice || ""
VoiceOf(out) == IF "ai_voice" \in DOMAIN out THEN out.ai_voice ELSE <<>>

\* lines 93-99: the result is refined when the handler asks for it
\* (refineWorkflowResult, lines 306-332: the cart is read under input.chatId)
FinalResult(m, input, out, env) ==
  IF "needsRefinement" \in DOMAIN out /\ out.needsRefinement
  THEN refineResponse(env, [data |-> out.data, nested |-> out.isShowingServices],
                      IF Truthy(input.chatId) THEN getCart(m, input.chatId[1]) ELSE <<>>)
  ELSE out

\* lines 99-105: the messages of the turn are saved under input.chatId
FlowCompleted(m, input, userQuery, finalResult, r, location) ==
  [m |-> saveMessages(m, input.chatId, userQuery, VoiceOf(finalResult)),
   out |-> finalResult, calls |-> r.calls, executed |-> r.executed,
   located |-> location, reached |-> "completed"]

\* lines 86-99: what the router returned
FlowRouted(input, userQuery, env, r, location) ==
  IF r.result = <<>>
  THEN [m |-> r.m, out |-> UnableError, calls |-> r.calls, executed |-> r.executed,
        located |-> location, reached |-> "unhandled"]
  ELSE IF "thrown" \in DOMAIN r.result[1]
  THEN FlowCaught(r.m, r.result[1].thrown, r.calls, r.executed)
  ELSE FlowCompleted(r.m, input, userQuery, FinalResult(r.m, input, r.result[1], env),
                     r, location)

\* lines 70-84: after handleLocation
FlowLocated(input, analysis, userQuery, env, got) ==
  IF got.threw
  THEN FlowCaught(got.m, GeocoderError(env), <<>>, <<>>)
  ELSE IF got.location = <<>> /\ analysis.needsLocation
  THEN createLocationRequestResponse(got.m, userQuery, input.chatId)
  ELSE FlowRouted(input, userQuery, env,
         route(RegisteredHandlers, got.m,
               buildWorkflowContext(got.m, input, userQuery, analysis, got.location),
               env),
         got.location)

\* analysis.correctedQuery || input.userQuery
UserQueryOf(input, analysis) ==
  IF "correctedQuery" \in DOMAIN analysis /\ analysis.correctedQuery # <<>>
  THEN analysis.correctedQuery ELSE input.userQuery

nearbyVendorsFlow(m, input, analysis, env) ==
  FlowLocated(input, analysis, UserQueryOf(input, analysis), env,
              handleLocation(m, input, analysis, loadUserContext(m, input.chatId), env))

\* services/memory.ts 510-521: the page cursor of a conversation
setLastServicePage(m, chatId, page) ==
  LET m1 == ensureUserMemory(m, chatId)
  IN MapSet(m1, chatId, [m1[chatId] EXCEPT !.lastServicePage = page])

\* userMemory?.lastServicePage || 0
getLastServicePage(m, chatId) ==
  IF chatId \in DOMAIN m THEN m[chatId].lastServicePage ELSE 0

IsPaginationRequest(analysis) ==
  "isPaginationRequest" \in DOMAIN analysis /\ analysis.isPaginationRequest = TRUE

\* explorationHandler.ts 125: the number of services asked for
ServiceLimit(analysis) == IF WantsServices(analysis) THEN 325 ELSE 50

\* tools/getVendorServices.ts 38-40: the offset of the services query
fetchVendorServices_offset(limit, page) == (page - 1) * limit

\* the offset of a catalog call of ExplorationWorkflow: the services are
\* fetched with page 1 (lines 127-131), the vendors query has no offset
CatalogOffset(op, analysis) ==
  IF op = "fetchVendorServices"
  THEN fetchVendorServices_offset(ServiceLimit(analysis), 1)
  ELSE 0

(***************************************************************************)
(* One turn of nearbyVendorsFlow on a request                              *)
(***************************************************************************)
\* who calls: routes/chat.ts passes chatId only, FlowInput allows userId too
FlowCallers ==
  {[chatId |-> <<>>, userId |-> <<>>],
   [chatId |-> <<"c1">>, userId |-> <<>>],
   [chatId |-> <<"c1">>, userId |-> <<"c1">>]}

\* the location fields of a request
FlowRequestLocations ==
  {[locationName |-> <<>>, latitude |-> <<>>, longitude |-> <<>>],
   [locationName |-> <<<<"K">>>>, latitude |-> <<>>, longitude |-> <<>>],
   [locationName |-> <<>>, latitude |-> <<26>>, longitude |-> <<80>>]}

\* classified intents of exploration turns, with the request text
FlowExploreIntents ==
  {[userQuery |-> <<"m", "e", "n", "u">>, analysis |-> a] : a \in
     {[needsLocation |-> TRUE, locationName |-> <<>>, queryType |-> "vendors"],
      [needsLocation |-> TRUE, locationName |-> <<<<"K">>>>, queryType |-> "vendors"],
      [needsLocation |-> FALSE, locationName |-> <<>>, queryType |-> "vendors"],
      [needsLocation |-> TRUE, locationName |-> <<>>, wantsServices |-> TRUE,
       isCartOperation |-> FALSE],
      [needsLocation |-> FALSE, locationName |-> <<>>, vendorName |-> <<"c", "a", "f", "e">>,
       correctedQuery |-> <<"c", "a", "f", "e">>]}}

\* classified intents of cart turns, with the request text
FlowCartIntents ==
  {[userQuery |-> <<"a", "d", "d", " ", "i", "t">>,
    analysis |-> [needsLocation |-> TRUE, locationName |-> <<>>,
                  isCartOperation |-> TRUE, cartAction |-> "add"]],
   [userQuery |-> <<"a", "d", "d", " ", "i", "t">>,
    analysis |-> [needsLocation |-> FALSE, locationName |-> <<>>,
                  isCartOperation |-> TRUE, cartAction |-> "add"]],
   [userQuery |-> <<"m", "e", "n", "u">>,
    analysis |-> [needsLocation |-> FALSE, locationName |-> <<>>,
                  isCartOperation |-> TRUE, cartAction |-> "view"]]}

\* what the geocoder, the catalog and the narrator answer in the turn
FlowEnvs ==
  {[voice |-> <<"o", "k">>, now |-> 1, geocode |-> g, vendors |-> c[1], services |-> c[2]] :
     g \in {<<>>, <<[latitude |-> 26, longitude |-> 80]>>},
     c \in {<<<<>>, <<>>>>, <<<<CafeRow>>, <<IcedTeaRow, TeaRow>>>>}}

FlowInputOf(caller, where, userQuery) ==
  [userQuery |-> userQuery, chatId |-> caller.chatId, userId |-> caller.userId,
   locationName |-> where.locationName, latitude |-> where.latitude,
   longitude |-> where.longitude]

\* no location anywhere: none saved, none in the request, none classified
NoLocationAnywhere(m, input, analysis) ==
  /\ loadUserContext(m, input.chatId) = <<>>
  /\ ~NumberGiven(input.latitude) /\ ~NumberGiven(input.longitude)
  /\ ~NameGiven(input.locationName)
  /\ ~NameGiven(analysis.locationName)

\* failing names the collaborator that fails in the turn and its error
FlowTurnAs(input, analysis, env, failing) ==
  /\ routed.n < MaxTurns
  /\ \E t \in {nearbyVendorsFlow(userMemoryMap, input, analysis, env)} :
       /\ CartsInRange(t.m)
       /\ userMemoryMap' = t.m
       /\ routed' = [routed EXCEPT !.n = @ + 1]
       /\ call' = [op |-> "nearbyVendorsFlow",
                   chatId |-> IF Truthy(input.chatId) THEN input.chatId[1] ELSE "",
                   arg |-> [needsLocation |-> analysis.needsLocation,
                            noLocation |-> NoLocationAnywhere(userMemoryMap, input, analysis),
                            cartFlag |-> IsCartFlag(analysis),
                            userIdGiven |-> Truthy(input.userId),
                            userId |-> input.userId,
                            userQuery |-> UserQueryOf(input, analysis),
                            genericAdd |-> /\ IsCartFlag(analysis)
                                           /\ CartActionOf(analysis) = "add"
                                           /\ isGenericAddRequest(input.userQuery),
                            fetched |-> IF \E i \in 1..Len(t.calls) :
                                             t.calls[i] = "fetchVendorServices"
                                        THEN env.services ELSE <<>>,
                            isPaginationRequest |-> IsPaginationRequest(analysis),
                            pageCursor |-> IF Truthy(input.chatId)
                                           THEN getLastServicePage(userMemoryMap, input.chatId[1])
                                           ELSE 0,
                            offsets |-> [i \in 1..Len(t.calls) |->
                                           CatalogOffset(t.calls[i], analysis)],
                            out |-> t.out, calls |-> t.calls,
                            executed |-> t.executed, located |-> t.located,
                            reached |-> t.reached, failing |-> failing],
                   ret |-> "void"]
       /\ UNCHANGED <<appendLog, inflight, chatSockets, sockets>>

FlowTurn(input, analysis, env) == FlowTurnAs(input, analysis, env, [who |-> "nobody"])

ExploreTurn ==
  \E caller \in FlowCallers, where \in FlowRequestLocations,
     intent \in FlowExploreIntents, env \in FlowEnvs :
    FlowTurn(FlowInputOf(caller, where, intent.userQuery), intent.analysis, env)

CartTurn ==
  \E caller \in FlowCallers, where \in FlowRequestLocations,
     intent \in FlowCartIntents, env \in FlowEnvs :
    FlowTurn(FlowInputOf(caller, where, intent.userQuery), intent.analysis, env)

InitFlow ==
  /\ userMemoryMap \in {EmptyMap, [c \in {"c1"} |-> ShownMemory]}
  /\ call = NoCall
  /\ appendLog = [c \in AllChats |-> <<>>]
  /\ routed = NoRoute
  /\ inflight = NoTurns
  /\ chatSockets = NoChatSockets
  /\ sockets = NoSockets

NextFlow ==
  \/ ExploreTurn
  \/ CartTurn

SpecFlow == InitFlow /\ [][NextFlow]_vars

(***************************************************************************)
(* The memory functions called on the sessions c1 and c2: the location     *)
(* functions on both, the other functions on c1                            *)
(***************************************************************************)
\* the locations saveUserLocation is called with
SessionLocations ==
  {[latitude |-> 26, longitude |-> 80, name |-> <<"K">>],
   [latitude |-> 28, longitude |-> 77, name |-> <<"D">>]}

SaveUserLocation ==
  \E chatId \in AllChats, location \in SessionLocations :
    /\ userMemoryMap' = saveUserLocation(userMemoryMap, chatId, location)
    /\ call' = [op |-> "saveUserLocation", chatId |-> chatId,
                arg |-> [location |-> location], ret |-> "void"]
    /\ UNCHANGED <<appendLog, routed, inflight, chatSockets, sockets>>

GetUserLocation ==
  \E chatId \in AllChats :
    /\ call' = [op |-> "getUserLocation", chatId |-> chatId, arg |-> [none |-> 0],
                ret |-> getUserLocation(userMemoryMap, chatId)]
    /\ UNCHANGED <<userMemoryMap, appendLog, routed, inflight, chatSockets, sockets>>

ClearUserLocation ==
  \E chatId \in AllChats :
    /\ userMemoryMap' = clearUserLocation(userMemoryMap, chatId)
    /\ call' = [op |-> "clearUserLocation", chatId |-> chatId, arg |-> [none |-> 0],
                ret |-> "void"]
    /\ UNCHANGED <<appendLog, routed, inflight, chatSockets, sockets>>

ClearSession ==
  \E chatId \in AllChats :
    /\ userMemoryMap' = clearChatHistory(userMemoryMap, chatId)
    /\ call' = [op |-> "clearChatHistory", chatId |-> chatId, arg |-> [none |-> 0],
                ret |-> "void"]
    /\ UNCHANGED <<appendLog, routed, inflight, chatSockets, sockets>>

SessionSaveMessage ==
  \E chatId \in MessageChats :
    /\ userMemoryMap' = saveMessage(userMemoryMap, chatId, "user", 1)
    /\ call' = [op |-> "saveMessage", chatId |-> chatId,
                arg |-> [role |-> "user", content |-> 1], ret |-> "void"]
    /\ UNCHANGED <<appendLog, routed, inflight, chatSockets, sockets>>

SessionSaveStoreItem ==
  \E chatId \in StoreChats :
    \E item \in {[type |-> "vendor", id |-> 2, name |-> VendorNameOf(2),
                   lastMentioned |-> 1]} :
      /\ userMemoryMap' = saveStoreItem(userMemoryMap, chatId, item)
      /\ call' = [op |-> "saveStoreItem", chatId |-> chatId, arg |-> [item |-> item],
                  ret |-> "void"]
      /\ UNCHANGED <<appendLog, routed, inflight, chatSockets, sockets>>

SessionAddToCart ==
  \E chatId \in CartChats, now \in Times :
    \E m \in {addToCart(userMemoryMap, chatId, BaseCartItem(1, 1), now)} :
      /\ QtyInRange(m[chatId].cart)
      /\ userMemoryMap' = m
      /\ call' = [op |-> "addToCart", chatId |-> chatId,
                  arg |-> [cartItem |-> BaseCartItem(1, 1), now |-> now], ret |-> "void"]
      /\ UNCHANGED <<appendLog, routed, inflight, chatSockets, sockets>>

SessionSetLastServicePage ==
  \E chatId \in CartChats, page \in 0..1 :
    /\ userMemoryMap' = setLastServicePage(userMemoryMap, chatId, page)
    /\ call' = [op |-> "setLastServicePage", chatId |-> chatId,
                arg |-> [page |-> page], ret |-> "void"]
    /\ UNCHANGED <<appendLog, routed, inflight, chatSockets, sockets>>

SessionSaveLastShownServices ==
  \E chatId \in CartChats, services \in {<<>>, ShownMemory.lastShownServices} :
    /\ userMemoryMap' = saveLastShownServices(userMemoryMap, chatId, services)
    /\ call' = [op |-> "saveLastShownServices", chatId |-> chatId,
                arg |-> [services |-> services], ret |-> "void"]
    /\ UNCHANGED <<appendLog, routed, inflight, chatSockets, sockets>>

InitSessions ==
  /\ userMemoryMap \in {EmptyMap, [c \in {"c2"} |-> BackgroundMemory]}
  /\ call = NoCall
  /\ appendLog = [c \in AllChats |-> <<>>]
  /\ routed = NoRoute
  /\ inflight = NoTurns
  /\ chatSockets = NoChatSockets
  /\ sockets = NoSockets

NextSessions ==
  \/ SaveUserLocation
  \/ GetUserLocation
  \/ ClearUserLocation
  \/ ClearSession
  \/ SessionSaveMessage
  \/ SessionSaveStoreItem
  \/ SessionAddToCart
  \/ SessionSetLastServicePage
  \/ SessionSaveLastShownServices

SpecSessions == InitSessions /\ [][NextSessions]_vars

(***************************************************************************)
(* Turns of conversation c1 whose request or intent names a place, the     *)
(* saved one or another, between calls of clearUserLocation                *)
(***************************************************************************)
\* the location fields of a request: none, the place K, the place D
LocateRequestLocations ==
  FlowRequestLocations
  \cup {[locationName |-> <<<<"D">>>>, latitude |-> <<>>, longitude |-> <<>>],
        [locationName |-> <<>>, latitude |-> <<28>>, longitude |-> <<77>>]}

\* classified intents with no place, the place K, the place D
LocateIntents ==
  {[userQuery |-> <<"m", "e", "n", "u">>, analysis |-> a] : a \in
     {[needsLocation |-> TRUE, locationName |-> <<>>, queryType |-> "vendors"],
      [needsLocation |-> TRUE, locationName |-> <<<<"K">>>>, queryType |-> "vendors"],
      [needsLocation |-> TRUE, locationName |-> <<<<"D">>>>, queryType |-> "vendors"],
      [needsLocation |-> FALSE, locationName |-> <<<<"D">>>>, queryType |-> "vendors"],
      [needsLocation |-> FALSE, locationName |-> <<<<"D">>>>,
       isCartOperation |-> TRUE, cartAction |-> "view"]}}

\* what the geocoder answers: nothing, the coordinates of K, those of D
LocateEnvs ==
  {[voice |-> <<"o", "k">>, now |-> 1, geocode |-> g, vendors |-> <<CafeRow>>,
    services |-> <<>>] :
     g \in {<<>>, <<[latitude |-> 26, longitude |-> 80]>>,
            <<[latitude |-> 28, longitude |-> 77]>>}}

\* one turn; call.arg keeps the location that was saved when the turn
\* started, what handleLocation did, and the location the turn went on with
LocateTurn ==
  \E where \in LocateRequestLocations, intent \in LocateIntents, env \in LocateEnvs :
    \E input \in {FlowInputOf([chatId |-> <<"c1">>, userId |-> <<"c1">>], where,
                              intent.userQuery)} :
      /\ routed.n < MaxTurns
      /\ \E t \in {nearbyVendorsFlow(userMemoryMap, input, intent.analysis, env)},
            got \in {handleLocation(userMemoryMap, input, intent.analysis,
                                    loadUserContext(userMemoryMap, input.chatId), env)} :
           /\ userMemoryMap' = t.m
           /\ call' = [op |-> "nearbyVendorsFlow", chatId |-> "c1",
                       arg |-> [savedBefore |-> getUserLocation(userMemoryMap, "c1"),
                                where |-> where,
                                locationName |-> intent.analysis.locationName,
                                asked |-> got.asked, saved |-> got.saved,
                                located |-> t.located, reached |-> t.reached],
                       ret |-> "void"]
      /\ routed' = [routed EXCEPT !.n = @ + 1]
      /\ UNCHANGED <<appendLog, inflight, chatSockets, sockets>>

NextLocate ==
  \/ LocateTurn
  \/ ClearUserLocation

SpecLocate == InitFlow /\ [][NextLocate]_vars

(***************************************************************************)
(* The life of a session record: the memory functions that clear, evict    *)
(* or remove something, and the ones that fill what they work on           *)
(***************************************************************************)
\* getAllChatIds: the keys of the map (their order is not modelled)
getAllChatIds(m) == DOMAIN m

\* one call of a memory function that leaves the map m; call.arg keeps the
\* record the session had before the call, if any
LifeCall(op, chatId, m) ==
  /\ userMemoryMap' = m
  /\ call' = [op |-> op, chatId |-> chatId,
              arg |-> [before |-> IF chatId \in DOMAIN userMemoryMap
                                  THEN <<userMemoryMap[chatId]>> ELSE <<>>],
              ret |-> "void"]
  /\ UNCHANGED <<appendLog, routed, inflight, chatSockets, sockets>>

LifeClearChatHistory ==
  \E chatId \in AllChats : LifeCall("clearChatHistory", chatId,
                                    clearChatHistory(userMemoryMap, chatId))

LifeClearCart ==
  \E chatId \in AllChats : LifeCall("clearCart", chatId, clearCart(userMemoryMap, chatId))

LifeClearUserLocation ==
  \E chatId \in AllChats : LifeCall("clearUserLocation", chatId,
                                    clearUserLocation(userMemoryMap, chatId))

LifeRemoveFromCart ==
  \E chatId \in CartChats : LifeCall("removeFromCart", chatId,
                                     removeFromCart(userMemoryMap, chatId, 1, 1))

LifeAddToCart ==
  \E chatId \in CartChats :
    \E m \in {addToCart(userMemoryMap, chatId, BaseCartItem(1, 1), 1)} :
      QtyInRange(m[chatId].cart) /\ LifeCall("addToCart", chatId, m)

\* the message list is cut to MESSAGE_LIMIT by the call that exceeds it
LifeSaveMessage ==
  \E chatId \in MessageChats : LifeCall("saveMessage", chatId,
                                        saveMessage(userMemoryMap, chatId, "user", 1))

\* one vendor more than the store may hold: the call that exceeds
\* STORE_LIMIT evicts
LifeSaveStoreItem ==
  \E chatId \in StoreChats, id \in 1..(STORE_LIMIT + 1) :
    LifeCall("saveStoreItem", chatId,
             saveStoreItem(userMemoryMap, chatId,
                           [type |-> "vendor", id |-> id, name |-> <<"V">>,
                            lastMentioned |-> 1]))

LifeGetAllChatIds ==
  /\ call' = [op |-> "getAllChatIds", chatId |-> "", arg |-> [before |-> <<>>],
              ret |-> getAllChatIds(userMemoryMap)]
  /\ UNCHANGED <<userMemoryMap, appendLog, routed, inflight, chatSockets, sockets>>

NextLifecycle ==
  \/ LifeClearChatHistory
  \/ LifeClearCart
  \/ LifeClearUserLocation
  \/ LifeRemoveFromCart
  \/ LifeAddToCart
  \/ LifeSaveMessage
  \/ LifeSaveStoreItem
  \/ LifeGetAllChatIds

SpecLifecycle == InitSessions /\ [][NextLifecycle]_vars

(***************************************************************************)
(* Requests in flight: POST /chat starts nearbyVendorsFlow for every       *)
(* request it receives; the flow runs to its first collaborator call       *)
(* (the classifier) and is resumed when the answer arrives                 *)
(***************************************************************************)
\* routes/chat.ts 19-39 and index.ts 44-52: the request is received, the
\* history and the saved location of its chatId are read, the classifier
\* is called
ReceiveTurn ==
  \E r \in Requests, chatId \in AllChats, where \in FlowRequestLocations,
     userQuery \in {<<"m", "e", "n", "u">>, <<"a", "d", "d", " ", "i", "t">>} :
    /\ routed.n < MaxTurns
    /\ inflight[r] = IdleTurn
    /\ inflight' = [inflight EXCEPT ![r] =
                      [pc |-> "classifying",
                       input |-> FlowInputOf([chatId |-> <<chatId>>, userId |-> <<>>],
                                             where, userQuery),
                       savedLocation |-> loadUserContext(userMemoryMap, <<chatId>>)]]
    /\ routed' = [routed EXCEPT !.n = @ + 1]
    /\ call' = [op |-> "POST /chat", chatId |-> chatId, arg |-> [request |-> r],
                ret |-> "void"]
    /\ UNCHANGED <<userMemoryMap, appendLog, chatSockets, sockets>>

\* index.ts 54-105: the classifier answered; the location is handled with
\* the saved location read before the call, the request is routed and the
\* messages are saved
ResumeTurn ==
  \E r \in Requests, intent \in FlowExploreIntents \cup FlowCartIntents, env \in FlowEnvs :
    /\ inflight[r].pc = "classifying"
    /\ intent.userQuery = inflight[r].input.userQuery
    /\ \E t \in {FlowLocated(inflight[r].input, intent.analysis,
                              UserQueryOf(inflight[r].input, intent.analysis), env,
                              handleLocation(userMemoryMap, inflight[r].input,
                                             intent.analysis,
                                             inflight[r].savedLocation, env))} :
         /\ CartsInRange(t.m)
         /\ userMemoryMap' = t.m
         /\ call' = [op |-> "resume", chatId |-> inflight[r].input.chatId[1],
                     arg |-> [request |-> r, reached |-> t.reached], ret |-> "void"]
    /\ inflight' = [inflight EXCEPT ![r] = IdleTurn]
    /\ UNCHANGED <<appendLog, routed, chatSockets, sockets>>

NextTurns ==
  \/ ReceiveTurn
  \/ ResumeTurn

SpecTurns == InitFlow /\ [][NextTurns]_vars

(***************************************************************************)
(* Concurrent add turns of one conversation: a turn is suspended at the    *)
(* classifier, at every await of addToCart, and at the narrator; what a    *)
(* function does between two awaits is one step                            *)
(***************************************************************************)
\* what the classifier may make of the request of an add turn
ConcurrentAddAnalyses ==
  {[isCartOperation |-> TRUE, cartAction |-> "add", serviceNames |-> <<<<"t", "e", "a">>>>],
   [isCartOperation |-> TRUE, cartAction |-> "add", serviceNames |-> <<<<"t", "e", "a">>>>,
    quantities |-> <<<<2>>>>],
   [isCartOperation |-> TRUE, cartAction |-> "add",
    serviceNames |-> <<<<"i", "c", "e", "d">>, <<"t", "e", "a">>>>],
   [isCartOperation |-> TRUE, cartAction |-> "add",
    serviceNames |-> <<<<"c", "o", "f", "f", "e", "e">>>>]}

\* one more step of request r of conversation c1
AddStep(r, op, turn, m, log) ==
  /\ inflight' = [inflight EXCEPT ![r] = turn]
  /\ userMemoryMap' = m
  /\ appendLog' = log
  /\ call' = [op |-> op, chatId |-> "c1",
              arg |-> [request |-> r,
                       others |-> {inflight[o].pc : o \in Requests \ {r}}],
              ret |-> "void"]

\* index.ts 44-52: the request is received and the classifier is called
ReceiveAddTurn ==
  \E r \in Requests :
    /\ routed.n < MaxTurns
    /\ inflight[r] = IdleTurn
    /\ routed' = [routed EXCEPT !.n = @ + 1]
    /\ AddStep(r, "POST /chat", [pc |-> "classifying"], userMemoryMap, appendLog)
    /\ UNCHANGED <<chatSockets, sockets>>

\* index.ts 54-80 and cartHandler.ts 573-661: the classifier answered, the
\* context is built, the requested names are resolved among the services
\* shown and stored; the first addToCart is about to be called
ResolveAddTurn ==
  \E r \in Requests, analysis \in ConcurrentAddAnalyses :
    /\ inflight[r].pc = "classifying"
    /\ AddStep(r, "resolve",
               [pc |-> "adding",
                context |-> buildWorkflowContext(userMemoryMap,
                              [userId |-> <<"c1">>, chatId |-> <<"c1">>],
                              <<"a", "d", "d">>, analysis, <<>>),
                toAdd |-> ResolveServicesByName(userMemoryMap, "c1", analysis, 1, 1).toAdd],
               userMemoryMap, appendLog)
    /\ UNCHANGED <<routed, chatSockets, sockets>>

\* cartHandler.ts 664-668, one pass: addToCart runs from its call to its
\* return without an await (memory.ts 383-408); the turn is suspended
\* before the next pass
AddNextToCart ==
  \E r \in Requests :
    /\ inflight[r].pc = "adding"
    /\ inflight[r].toAdd # <<>>
    /\ AddStep(r, "addToCart", [inflight[r] EXCEPT !.toAdd = Tail(@)],
               addToCart(userMemoryMap, "c1", Head(inflight[r].toAdd), 1),
               [appendLog EXCEPT !["c1"] =
                  Append(@, [serviceId |-> Head(inflight[r].toAdd).serviceId,
                             vendorId |-> Head(inflight[r].toAdd).vendorId,
                             quantity |-> OrDefault(Head(inflight[r].toAdd),
                                                     "quantity", 1)])])
    /\ UNCHANGED <<routed, chatSockets, sockets>>

\* cartHandler.ts 671-699: the cart is read again and the narrator called
NarrateAddTurn ==
  \E r \in Requests :
    /\ inflight[r].pc = "adding"
    /\ inflight[r].toAdd = <<>>
    /\ AddStep(r, "narrate",
               [pc |-> "narrating", context |-> inflight[r].context,
                cart |-> getCart(userMemoryMap, "c1")],
               userMemoryMap, appendLog)
    /\ UNCHANGED <<routed, chatSockets, sockets>>

\* cartHandler.ts 699-707 and index.ts 99-105: the narrator answered, the
\* messages are saved and the reply is sent
FinishAddTurn ==
  \E r \in Requests :
    /\ inflight[r].pc = "narrating"
    /\ AddStep(r, "reply", IdleTurn,
               Replied(userMemoryMap, inflight[r].context,
                       refineCart([voice |-> <<"o", "k">>], inflight[r].cart)).m,
               appendLog)
    /\ UNCHANGED <<routed, chatSockets, sockets>>

NextAdds ==
  \/ ReceiveAddTurn
  \/ ResolveAddTurn
  \/ AddNextToCart
  \/ NarrateAddTurn
  \/ FinishAddTurn

SpecAdds == InitFlow /\ [][NextAdds]_vars

(***************************************************************************)
(* retryWithBackoff (utils/retryWithBackoff.ts)                            *)
(* A thrown value is a record with the fields it has among status, code    *)
(* and message; a number is [t |-> "number", v |-> its digits], a string   *)
(* [t |-> "string", v |-> its text]; messages are tuples of characters     *)
(***************************************************************************)
MaxRetries == 3

\* lines 36-45
isRetryable(error) ==
  \/ OrField(error, "status", "code") = <<Num("503")>>
  \/ OrField(error, "status", "code") = <<Num("429")>>
  \/ OrField(error, "status", "code") = <<Str("UNAVAILABLE")>>
  \/ OrField(error, "code", "status") = <<Num("503")>>
  \/ OrField(error, "code", "status") = <<Num("429")>>
  \/ MessageIncludes(error, <<"o", "v", "e", "r", "l", "o", "a", "d", "e", "d">>)
  \/ MessageIncludes(error, <<"5", "0", "3">>)

RECURSIVE Pow2(_)
Pow2(n) == IF n = 0 THEN 1 ELSE 2 * Pow2(n - 1)

\* a delay growing by initialDelay with every attempt
BackoffDelay_linear(initialDelay, attempt) == initialDelay * (attempt + 1)

\* line 53: initialDelay * Math.pow(2, attempt)
BackoffDelay(initialDelay, attempt) == initialDelay * Pow2(attempt)

\* what fn does in one invocation: it resolves, or rejects with an error
ThrownErrors ==
  {[status |-> Num("503")],
   [code |-> Num("429")],
   [status |-> Str("UNAVAILABLE"), code |-> Num("503"), message |-> <<"b", "u", "s", "y">>],
   [status |-> Num("400"), message |-> <<"b", "a", "d">>],
   [status |-> Str("503")],
   [code |-> Num("500")],
   [message |-> <<"m", "o", "d", "e", "l", " ", "o", "v", "e", "r", "l", "o", "a", "d", "e", "d">>],
   [message |-> <<"i", "d", " ", "1", "5", "0", "3">>],
   [message |-> <<"b", "a", "d">>],
   [message |-> <<>>]}

\* the values fn may resolve with
FnValues == {"v1", "v2"}

FnOutcomes ==
  {[ok |-> TRUE, value |-> v] : v \in FnValues}
  \cup {[ok |-> FALSE, error |-> e] : e \in ThrownErrors}

\* retryWithBackoff(fn, maxRetries, initialDelay) is called: attempt = 0
RetryStart ==
  \E maxRetries \in 0..MaxRetries, initialDelay \in {1, 1000} :
    /\ IF call.op = "retryWithBackoff" THEN call.arg.pc \in {"returned", "thrown"}
       ELSE TRUE
    /\ call' = [op |-> "retryWithBackoff", chatId |-> "",
                arg |-> [pc |-> "try", attempt |-> 0, maxRetries |-> maxRetries,
                         initialDelay |-> initialDelay, invocations |-> 0,
                         delays |-> <<>>, lastError |-> <<>>, value |-> <<>>,
                         outcomes |-> <<>>],
                ret |-> "pending"]
    /\ UNCHANGED <<userMemoryMap, appendLog, routed, inflight, chatSockets, sockets>>

\* lines 29-52: fn is invoked; its value is returned, or its error is
\* caught and either thrown again or followed by a delay; outcomes logs
\* what every invocation of fn did
RetryInvoke ==
  \E outcome \in FnOutcomes :
    /\ call.op = "retryWithBackoff" /\ call.arg.pc = "try"
    /\ call' =
         IF outcome.ok
         THEN [call EXCEPT !.arg.pc = "returned", !.arg.invocations = @ + 1,
                           !.arg.value = <<outcome.value>>,
                           !.arg.outcomes = Append(@, outcome),
                           !.ret = "returned"]
         ELSE IF ~isRetryable(outcome.error) \/ call.arg.attempt = call.arg.maxRetries
         THEN [call EXCEPT !.arg.pc = "thrown", !.arg.invocations = @ + 1,
                           !.arg.lastError = <<outcome.error>>,
                           !.arg.outcomes = Append(@, outcome), !.ret = "thrown"]
         ELSE [call EXCEPT !.arg.pc = "sleep", !.arg.invocations = @ + 1,
                           !.arg.lastError = <<outcome.error>>,
                           !.arg.outcomes = Append(@, outcome)]
    /\ UNCHANGED <<userMemoryMap, appendLog, routed, inflight, chatSockets, sockets>>

\* lines 53-70 and 28: the delay is waited, the next attempt begins
RetrySleep ==
  /\ call.op = "retryWithBackoff" /\ call.arg.pc = "sleep"
  /\ call' = [call EXCEPT !.arg.pc = "try", !.arg.attempt = @ + 1,
                          !.arg.delays = Append(@, BackoffDelay(call.arg.initialDelay,
                                                               call.arg.attempt))]
  /\ UNCHANGED <<userMemoryMap, appendLog, routed, inflight, chatSockets, sockets>>

InitRetry == InitMessages

NextRetry ==
  \/ RetryStart
  \/ RetryInvoke
  \/ RetrySleep

SpecRetry == InitRetry /\ [][NextRetry]_vars

\* every invocation of fn terminates and every delay elapses: a pending
\* call of retryWithBackoff keeps taking its next step
SpecRetryFair == SpecRetry /\ WF_vars(RetryInvoke) /\ WF_vars(RetrySleep)

(***************************************************************************)
(* analyzeUserQuery (the classification step)                              *)
(* What the wrapped classifier call gives: it throws (retries exhausted),  *)
(* or answers with a structured output, or with a text only, or with       *)
(* neither. A text is either no JSON or the JSON of an object.             *)
(***************************************************************************)
\* objects a classifier answer may hold; the last two lack required fields
ClassifiedObjects ==
  {[correctedQuery |-> <<"m", "e", "n", "u">>, needsLocation |-> TRUE,
    locationName |-> <<>>, queryType |-> "vendors"],
   [correctedQuery |-> <<"m", "e", "n", "u">>, needsLocation |-> FALSE,
    locationName |-> <<<<"K">>>>, queryType |-> "vendors", wantsServices |-> TRUE],
   [correctedQuery |-> <<"a", "d", "d", " ", "i", "t">>, needsLocation |-> FALSE,
    locationName |-> <<>>, queryType |-> "cart", isCartOperation |-> TRUE,
    cartAction |-> "add"],
   [correctedQuery |-> <<"m", "e", "n", "u">>, needsLocation |-> FALSE,
    locationName |-> <<>>, queryType |-> "cart", isCartOperation |-> TRUE,
    cartAction |-> "view"],
   [correctedQuery |-> <<"m", "e", "n", "u">>, needsLocation |-> FALSE,
    locationName |-> <<>>, queryType |-> "cart", isCartOperation |-> TRUE,
    cartAction |-> "remove", serviceNames |-> <<<<"t", "e", "a">>>>],
   [correctedQuery |-> <<"m", "e", "n", "u">>, needsLocation |-> FALSE,
    locationName |-> <<>>, queryType |-> "services", isPaginationRequest |-> TRUE],
   [correctedQuery |-> <<"c", "a", "f", "e">>, needsLocation |-> TRUE,
    locationName |-> <<>>, queryType |-> "services", vendorName |-> <<"c", "a", "f", "e">>],
   [needsLocation |-> FALSE, isCartOperation |-> TRUE, cartAction |-> "add"],
   [queryType |-> "vendors"]}

ClassifierAnswers ==
  {[threw |-> TRUE]}
  \cup {[threw |-> FALSE, output |-> <<o>>, text |-> <<>>] : o \in ClassifiedObjects}
  \cup {[threw |-> FALSE, output |-> <<>>, text |-> t] :
          t \in {<<>>, <<[kind |-> "blank"]>>, <<[kind |-> "prose"]>>}
                \cup {<<[kind |-> "json", fenced |-> f, object |-> o]>> :
                        f \in BOOLEAN, o \in ClassifiedObjects}}

\* the empty object {}
EmptyObject == [x \in {} |-> 0]

\* lines 108-115: response.text?.trim() || "{}", the code fence around the
\* text removed, then JSON.parse (which throws on a text that is no JSON)
ParsedText(text) ==
  IF text = <<>> \/ text[1].kind = "blank" THEN [threw |-> FALSE, object |-> EmptyObject]
  ELSE IF text[1].kind = "prose" THEN [threw |-> TRUE]
  ELSE [threw |-> FALSE, object |-> text[1].object]

\* lines 54-66 and 117: the fields queryAnalysisSchema requires
SchemaAccepts(object) ==
  {"correctedQuery", "needsLocation", "locationName", "queryType"} \subseteq DOMAIN object

\* lines 144-148
ParseFailureAnalysis ==
  [needsLocation |-> FALSE, locationName |-> <<>>, queryType |-> "general query"]

\* lines 162-167
ApiFailureAnalysis(userQuery) ==
  [correctedQuery |-> userQuery, needsLocation |-> TRUE, locationName |-> <<>>,
   queryType |-> "general query"]

\* lines 99-149: the answer arrived
AnalysisOfAnswer(answer, parsed) ==
  IF answer.output # <<>> THEN answer.output[1]
  ELSE IF parsed.threw THEN ParseFailureAnalysis
  ELSE IF ~SchemaAccepts(parsed.object) THEN ParseFailureAnalysis
  ELSE parsed.object

\* lines 84-168
analyzeUserQuery(userQuery, answer) ==
  IF answer.threw THEN ApiFailureAnalysis(userQuery)
  ELSE AnalysisOfAnswer(answer, ParsedText(answer.text))

AnalyzeUserQuery ==
  \E userQuery \in Queries, answer \in ClassifierAnswers :
    /\ call' = [op |-> "analyzeUserQuery", chatId |-> "",
                arg |-> [userQuery |-> userQuery, answer |-> answer],
                ret |-> analyzeUserQuery(userQuery, answer)]
    /\ UNCHANGED <<userMemoryMap, appendLog, routed, inflight, chatSockets, sockets>>

NextClassify == AnalyzeUserQuery

SpecClassify == InitMessages /\ [][NextClassify]_vars

(***************************************************************************)
(* Turns of nearbyVendorsFlow in which one collaborator fails: the         *)
(* classifier, the geocoder, the catalog or the narrator rejects with an   *)
(* error after the retries of retryWithBackoff                             *)
(***************************************************************************)
FailureErrors ==
  {[status |-> Num("503")],
   [message |-> <<"c", "o", "n", "n", "e", "c", "t", " ", "E", "C", "O", "N", "N", "R", "E", "F", "U", "S", "E", "D">>],
   [message |-> <<"b", "a", "d">>]}

\* what the collaborators answer when they do not fail
AnsweringEnv ==
  [voice |-> <<"o", "k">>, now |-> 1, geocode |-> <<[latitude |-> 26, longitude |-> 80]>>,
   vendors |-> <<CafeRow>>, services |-> <<IcedTeaRow, TeaRow>>]

\* the callers of a conversation, with and without userId
FailCallers == {caller \in FlowCallers : Truthy(caller.chatId)}

FailIntents ==
  {intent \in FlowExploreIntents :
     /\ intent.analysis.needsLocation \/ "vendorName" \in DOMAIN intent.analysis
     /\ ~NameGiven(intent.analysis.locationName)}
  \cup {intent \in FlowCartIntents : ~intent.analysis.needsLocation}

\* the errors the narrator and the classifier reject with: they are caught
\* where the collaborator is called and not looked at
SwallowedErrors == {error \in FailureErrors : "message" \in DOMAIN error}

\* ai.generate of the classifier rejects: the intent is the one
\* analyzeUserQuery makes up
ClassifierFails ==
  \E caller \in FailCallers, where \in FlowRequestLocations,
     intent \in FailIntents, error \in SwallowedErrors :
    FlowTurnAs(FlowInputOf(caller, where, intent.userQuery),
               analyzeUserQuery(intent.userQuery, [threw |-> TRUE]),
               AnsweringEnv, [who |-> "classifier", error |-> error])

GeocoderFails ==
  \E caller \in FailCallers, where \in FlowRequestLocations,
     intent \in FailIntents, error \in FailureErrors :
    FlowTurnAs(FlowInputOf(caller, where, intent.userQuery), intent.analysis,
               Spread(AnsweringEnv, [geocode |-> <<>>, geocoder |-> error]),
               [who |-> "geocoder", error |-> error])

\* the connection of the catalog fails (the fetch throws) or its query does
\* (the fetch gives the empty list)
CatalogFails ==
  \E caller \in FailCallers, where \in FlowRequestLocations, intent \in FailIntents :
    \/ \E error \in FailureErrors :
         FlowTurnAs(FlowInputOf(caller, where, intent.userQuery), intent.analysis,
                    Spread(AnsweringEnv, [catalog |-> error]),
                    [who |-> "catalog", error |-> error])
    \/ \E error \in SwallowedErrors :
         FlowTurnAs(FlowInputOf(caller, where, intent.userQuery), intent.analysis,
                    Spread(AnsweringEnv, [vendors |-> <<>>, services |-> <<>>]),
                    [who |-> "catalog", error |-> error])

NarratorFails ==
  \E caller \in FailCallers, where \in FlowRequestLocations,
     intent \in FailIntents, error \in SwallowedErrors :
    FlowTurnAs(FlowInputOf(caller, where, intent.userQuery), intent.analysis,
               Spread(AnsweringEnv, [narrator |-> error]),
               [who |-> "narrator", error |-> error])

NextFail ==
  \/ ClassifierFails
  \/ GeocoderFails
  \/ CatalogFails
  \/ NarratorFails

SpecFail == InitFlow /\ [][NextFail]_vars

(***************************************************************************)
(* Turns that ask for the next page, and the page cursor                   *)
(***************************************************************************)
MaxPage == 2

\* classified intents of browse turns, with and without isPaginationRequest
FlowPageIntents ==
  {[userQuery |-> <<"m", "e", "n", "u">>, analysis |-> a] : a \in
     {[needsLocation |-> FALSE, locationName |-> <<>>, wantsServices |-> TRUE,
       isPaginationRequest |-> TRUE],
      [needsLocation |-> FALSE, locationName |-> <<>>, wantsServices |-> TRUE,
       isPaginationRequest |-> FALSE],
      [needsLocation |-> FALSE, locationName |-> <<>>, vendorName |-> <<"c", "a", "f", "e">>,
       isPaginationRequest |-> TRUE],
      [needsLocation |-> TRUE, locationName |-> <<<<"K">>>>, queryType |-> "vendors",
       isPaginationRequest |-> TRUE],
      [needsLocation |-> TRUE, locationName |-> <<<<"K">>>>, queryType |-> "vendors"]}}

PageTurn ==
  \E caller \in FlowCallers, where \in FlowRequestLocations,
     intent \in FlowPageIntents, env \in FlowEnvs :
    FlowTurn(FlowInputOf(caller, where, intent.userQuery), intent.analysis, env)

SetLastServicePage ==
  \E chatId \in {"c1"}, page \in 0..MaxPage :
    /\ userMemoryMap' = setLastServicePage(userMemoryMap, chatId, page)
    /\ call' = [op |-> "setLastServicePage", chatId |-> chatId,
                arg |-> [page |-> page], ret |-> "void"]
    /\ UNCHANGED <<appendLog, routed, inflight, chatSockets, sockets>>

NextPage ==
  \/ PageTurn
  \/ SetLastServicePage

SpecPage == InitFlow /\ [][NextPage]_vars

(***************************************************************************)
(* Properties of the cart                                                  *)
(***************************************************************************)
HasLine(m, chatId, serviceId, vendorId) ==
  /\ chatId \in DOMAIN m
  /\ \E i \in 1..Len(m[chatId].cart) : SameKey(m[chatId].cart[i], serviceId, vendorId)

\* the record of a chat with its cart blanked: everything but the cart
ButCart(rec) == [rec EXCEPT !.cart = <<>>]

\* the indices of the lines of cart that do not carry the key
OtherIdx(cart, serviceId, vendorId) ==
  {i \in 1..Len(cart) : ~SameKey(cart[i], serviceId, vendorId)}

\* after is before with exactly the lines of the key deleted, order kept
IsCartWithout(before, after, serviceId, vendorId) ==
  LET idx == OtherIdx(before, serviceId, vendorId) IN
  /\ Len(after) = Cardinality(idx)
  /\ \A k \in 1..Len(after) :
       after[k] = before[CHOOSE i \in idx : Cardinality({j \in idx : j <= i}) = k]

\* C1: in every reachable state of the cart operations a cart holds at most
\* one line per (serviceId, vendorId).
C1_OneLinePerKey ==
  \A c \in DOMAIN userMemoryMap :
    \A i, j \in 1..Len(userMemoryMap[c].cart) :
      i # j => ~SameKey(userMemoryMap[c].cart[i],
                        userMemoryMap[c].cart[j].serviceId,
                        userMemoryMap[c].cart[j].vendorId)

\* C2: every cart line has quantity >= 1 in every reachable state.
C2_QuantityAtLeastOne ==
  \A c \in DOMAIN userMemoryMap :
    \A i \in 1..Len(userMemoryMap[c].cart) : userMemoryMap[c].cart[i].quantity >= 1

\* C3: updateCartItemQuantity on a line that exists returns true; with
\* quantity <= 0 the map afterwards is the map removeFromCart gives, with
\* quantity > 0 the line's quantity is that quantity and nothing else changed.
C3_UpdateQuantityContract ==
  [][(/\ call'.op = "updateCartItemQuantity"
      /\ HasLine(userMemoryMap, call'.chatId, call'.arg.serviceId, call'.arg.vendorId))
     => LET c == call'.chatId
            sid == call'.arg.serviceId
            vid == call'.arg.vendorId
            q == call'.arg.quantity
            before == userMemoryMap[c].cart
            after == userMemoryMap'[c].cart
        IN /\ call'.ret = "true"
           /\ DOMAIN userMemoryMap' = DOMAIN userMemoryMap
           /\ \A d \in DOMAIN userMemoryMap : d # c => userMemoryMap'[d] = userMemoryMap[d]
           /\ ButCart(userMemoryMap'[c]) = ButCart(userMemoryMap[c])
           /\ q <= 0 => IsCartWithout(before, after, sid, vid)
           /\ q > 0 =>
                /\ Len(after) = Len(before)
                /\ \E i \in 1..Len(before) :
                     /\ SameKey(before[i], sid, vid)
                     /\ after[i] = [before[i] EXCEPT !.quantity = q]
                     /\ \A j \in 1..Len(before) : j # i => after[j] = before[j]
    ]_vars

\* C4: updateCartItemQuantity on a key that is not in the cart, or on a chat
\* without a record, returns false and leaves the whole map unchanged (no
\* record is created), for every quantity.
C4_UpdateQuantityNotFound ==
  [][(/\ call'.op = "updateCartItemQuantity"
      /\ ~HasLine(userMemoryMap, call'.chatId, call'.arg.serviceId, call'.arg.vendorId))
     => (call'.ret = "false" /\ userMemoryMap' = userMemoryMap)
    ]_vars

\* a not-found update with a non-positive quantity on a non-empty cart
C4_Witness ==
  /\ call.op = "updateCartItemQuantity"
  /\ call.ret = "false"
  /\ call.arg.quantity <= 0
  /\ call.chatId \in DOMAIN userMemoryMap
  /\ userMemoryMap[call.chatId].cart # <<>>

\* C5: removeFromCart deletes the lines of the key and nothing else: the
\* other lines keep content and order, every other field of the record and
\* every other record is unchanged, and a second call changes nothing.
C5_RemoveFrame ==
  [][call'.op = "removeFromCart"
     => LET c == call'.chatId
            sid == call'.arg.serviceId
            vid == call'.arg.vendorId
        IN /\ DOMAIN userMemoryMap' = DOMAIN userMemoryMap
           /\ \A d \in DOMAIN userMemoryMap : d # c => userMemoryMap'[d] = userMemoryMap[d]
           /\ c \in DOMAIN userMemoryMap =>
                /\ ButCart(userMemoryMap'[c]) = ButCart(userMemoryMap[c])
                /\ IsCartWithout(userMemoryMap[c].cart, userMemoryMap'[c].cart, sid, vid)
                /\ ~HasLine(userMemoryMap', c, sid, vid)
           /\ removeFromCart(userMemoryMap', c, sid, vid) = userMemoryMap'
    ]_vars

\* a removal that deleted a line, kept another, in a record with history
C5_Witness ==
  /\ call.op = "removeFromCart"
  /\ call.chatId \in DOMAIN userMemoryMap
  /\ Len(userMemoryMap[call.chatId].cart) >= 1
  /\ call.arg.lenBefore > Len(userMemoryMap[call.chatId].cart)
  /\ userMemoryMap[call.chatId].messages # <<>>

(***************************************************************************)
(* Properties of the store and of the message history                      *)
(***************************************************************************)
StoreOf(m, chatId) == IF chatId \in DOMAIN m THEN m[chatId].store ELSE <<>>

UniqueStoreKeys(store) ==
  \A i, j \in 1..Len(store) :
    i # j => ~(/\ store[i].type = store[j].type
               /\ store[i].id = store[j].id
               /\ toLowerCase(store[i].name) = toLowerCase(store[j].name))

\* C6: no two store entries share (type, id, lower-cased name), and a
\* saveStoreItem whose key is already stored puts the item in the place of
\* that entry and leaves every other entry and the length as they were.
C6_StoreIdentity ==
  /\ [](\A c \in DOMAIN userMemoryMap : UniqueStoreKeys(userMemoryMap[c].store))
  /\ [][call'.op = "saveStoreItem"
        => LET before == StoreOf(userMemoryMap, call'.chatId)
               after == StoreOf(userMemoryMap', call'.chatId)
               item == call'.arg.item
           IN \A i \in 1..Len(before) :
                (/\ before[i].type = item.type
                 /\ before[i].id = item.id
                 /\ toLowerCase(before[i].name) = toLowerCase(item.name))
                => /\ Len(after) = Len(before)
                   /\ after[i] = item
                   /\ \A j \in 1..Len(before) : j # i => after[j] = before[j]
       ]_vars

\* a replacement in place: the stored name differs from the one written
\* before only by case, and the entry count did not change
C6_Witness ==
  /\ call.op = "saveStoreItem"
  /\ call.arg.lenBefore = Len(userMemoryMap[call.chatId].store)
  /\ call.arg.lenBefore >= 2
  /\ call.arg.lenBefore < STORE_LIMIT
  /\ call.arg.item.name = <<"c", "a", "f", "e">>
  /\ call.arg.item.lastMentioned = 1

\* C7: the store never exceeds STORE_LIMIT entries, and an insert that
\* overflows keeps STORE_LIMIT of the STORE_LIMIT + 1 entries, none of them
\* with a lastMentioned smaller than the dropped entry's.
C7_StoreBound ==
  /\ [](\A c \in DOMAIN userMemoryMap : Len(userMemoryMap[c].store) <= STORE_LIMIT)
  /\ [][call'.op = "saveStoreItem"
        => LET before == StoreOf(userMemoryMap, call'.chatId)
               after == StoreOf(userMemoryMap', call'.chatId)
               item == call'.arg.item
               all == Range(before) \cup {item}
           IN (Len(before) = STORE_LIMIT /\ item \notin Range(before)
               /\ UniqueStoreKeys(Append(before, item)))
              => /\ Len(after) = STORE_LIMIT
                 /\ Range(after) \subseteq all
                 /\ Cardinality(Range(after)) = STORE_LIMIT
                 /\ \A kept \in Range(after) : \A dropped \in all \ Range(after) :
                      kept.lastMentioned >= dropped.lastMentioned
       ]_vars

\* an overflow that evicted an entry stored earlier: the full store holds
\* the entry just written, which was not the oldest
C7_Witness ==
  /\ call.op = "saveStoreItem"
  /\ call.arg.lenBefore = STORE_LIMIT
  /\ Len(userMemoryMap[call.chatId].store) = STORE_LIMIT
  /\ call.arg.item \in Range(userMemoryMap[call.chatId].store)
  /\ userMemoryMap[call.chatId].store[1] = call.arg.item
  /\ \E i \in 1..STORE_LIMIT :
       userMemoryMap[call.chatId].store[i].lastMentioned < call.arg.item.lastMentioned

\* the last n elements of a sequence
LastN(s, n) == SubSeq(s, Len(s) - n + 1, Len(s))

\* C8: the message list never exceeds MESSAGE_LIMIT and is always the last
\* min(n, MESSAGE_LIMIT) of the n messages appended, in append order.
C8_HistoryBound ==
  \A c \in MessageChats :
    LET msgs == IF c \in DOMAIN userMemoryMap THEN userMemoryMap[c].messages ELSE <<>>
        log == appendLog[c]
    IN /\ Len(msgs) <= MESSAGE_LIMIT
       /\ msgs = LastN(log, IF Len(log) > MESSAGE_LIMIT THEN MESSAGE_LIMIT ELSE Len(log))

\* more messages appended than the limit, the oldest ones evicted
C8_Witness ==
  /\ call.op = "saveMessage"
  /\ Len(appendLog[call.chatId]) >= MESSAGE_LIMIT + 2
  /\ Len(userMemoryMap[call.chatId].messages) = MESSAGE_LIMIT
  /\ appendLog[call.chatId][1] # appendLog[call.chatId][Len(appendLog[call.chatId])]

\* ---------------------------------------------------------------------
\* Router properties (SpecRoute); routed describes the last route call
\* ---------------------------------------------------------------------
ExecutedHandlers == [i \in 1..Len(routed.executed) |-> routed.executed[i].handler]

RegistrationOrder == <<"CartWorkflow", "ExplorationWorkflow">>

\* the first position of the registration order whose canHandle is true,
\* Len + 1 when there is none
FirstAble ==
  IF \E i \in 1..Len(RegistrationOrder) : routed.can[RegistrationOrder[i]]
  THEN CHOOSE i \in 1..Len(RegistrationOrder) :
         /\ routed.can[RegistrationOrder[i]]
         /\ \A j \in 1..(i - 1) : ~routed.can[RegistrationOrder[j]]
  ELSE Len(RegistrationOrder) + 1

\* C10: route consults the handlers in registration order (CartWorkflow,
\* then ExplorationWorkflow) up to and including the first whose canHandle
\* is true; that handler alone executes and its result is what route
\* returns; when no canHandle is true every handler was consulted, none
\* executed, and route returns null.
C10_FirstMatchOnly ==
  routed.n > 0 =>
    IF FirstAble <= Len(RegistrationOrder)
    THEN /\ routed.consulted = SubSeq(RegistrationOrder, 1, FirstAble)
         /\ ExecutedHandlers = <<RegistrationOrder[FirstAble]>>
         /\ routed.result = <<routed.outs[RegistrationOrder[FirstAble]]>>
    ELSE /\ routed.consulted = RegistrationOrder
         /\ ExecutedHandlers = <<>>
         /\ routed.result = <<>>

C10_Witness ==
  /\ routed.n > 0
  /\ ~routed.can["CartWorkflow"] /\ routed.can["ExplorationWorkflow"]
  /\ routed.consulted = <<"CartWorkflow", "ExplorationWorkflow">>
  /\ ExecutedHandlers = <<"ExplorationWorkflow">>
  /\ routed.result = <<routed.outs["ExplorationWorkflow"]>>

C10_WitnessUnhandled ==
  /\ routed.n > 0
  /\ routed.consulted = <<"CartWorkflow", "ExplorationWorkflow">>
  /\ routed.executed = <<>> /\ routed.result = <<>>

\* ---------------------------------------------------------------------
\* Properties of a turn (SpecFlow); call describes the last turn
\* ---------------------------------------------------------------------
IsTurn == call.op = "nearbyVendorsFlow"

TurnHandlers == [i \in 1..Len(call.arg.executed) |-> call.arg.executed[i].handler]

\* a turn with no location anywhere whose intent needs one
TurnLacksLocation == IsTurn /\ call.arg.noLocation /\ call.arg.needsLocation

\* a turn in which ExplorationWorkflow executed with location = null
TurnExploredUnlocated ==
  IsTurn /\ TurnHandlers = <<"ExplorationWorkflow">> /\ call.arg.located = <<>>

RegistryOf(m, c) == IF c \in DOMAIN m THEN m[c].store ELSE <<>>
LastShownOf(m, c) == IF c \in DOMAIN m THEN m[c].lastShownServices ELSE <<>>

\* C11: a turn with no saved location, none in the request and an intent
\* {needsLocation: true, locationName: null} ends with the location request
\* and makes no catalog call; ExplorationWorkflow.execute with location = null
\* returns the location-required error with no catalog call; neither turn
\* writes the registry or lastShown.
C11_LocationRequired ==
  /\ [](TurnLacksLocation =>
          /\ call.arg.out = LocationRequestResponse
          /\ call.arg.calls = <<>> /\ call.arg.executed = <<>>)
  /\ [](TurnExploredUnlocated =>
          /\ call.arg.out = LocationRequiredError
          /\ call.arg.calls = <<>>)
  /\ [][(routed'.n # routed.n /\ (TurnLacksLocation' \/ TurnExploredUnlocated')) =>
          \A c \in AllChats :
            /\ RegistryOf(userMemoryMap', c) = RegistryOf(userMemoryMap, c)
            /\ LastShownOf(userMemoryMap', c) = LastShownOf(userMemoryMap, c)]_vars

C11_Witness ==
  /\ TurnLacksLocation
  /\ call.arg.out = LocationRequestResponse
  /\ call.chatId = "c1"
  /\ Len(userMemoryMap["c1"].messages) >= 2

\* ---------------------------------------------------------------------
\* Properties of the add tiers (SpecAdd); call.arg is what the turn was given
\* ---------------------------------------------------------------------
CartOf(m, c) == IF c \in DOMAIN m THEN m[c].cart ELSE <<>>

\* the first entry of lastShown whose name fuzzy-matches the name, as the
\* identity and price a cart line takes from it
ShownEntryNamed(m, c, name) ==
  LET shown == LastShownOf(m, c)
      hits == {k \in 1..Len(shown) : serviceNamesMatch(shown[k].serviceName, name)}
  IN IF hits = {} THEN <<>>
     ELSE LET k == CHOOSE k \in hits : \A l \in hits : k <= l
          IN <<[serviceId |-> shown[k].serviceId, vendorId |-> shown[k].vendorId,
                price |-> shown[k].price]>>

\* the first service entry of the registry whose name fuzzy-matches the name
RegistryEntryNamed(m, c, name) ==
  LET store == RegistryOf(m, c)
      hits == {k \in 1..Len(store) :
                 store[k].type = "service" /\ serviceNamesMatch(store[k].name, name)}
  IN IF hits = {} THEN <<>>
     ELSE LET k == CHOOSE k \in hits : \A l \in hits : k <= l
          IN <<[serviceId |-> store[k].id, vendorId |-> store[k].vendorId, price |-> 0]>>

\* lastShown first, the registry only when lastShown has no match
EntryNamed(m, c, name) ==
  IF ShownEntryNamed(m, c, name) # <<>> THEN ShownEntryNamed(m, c, name)
  ELSE RegistryEntryNamed(m, c, name)

\* the cart holds a line of the entry's key; a line the turn created
\* carries the entry's price
LineOfEntry(before, after, e) ==
  \E j \in 1..Len(after) :
    /\ SameKey(after[j], e.serviceId, e.vendorId)
    /\ (\A k \in 1..Len(before) : ~SameKey(before[k], e.serviceId, e.vendorId))
         => after[j].price = e.price

\* every line of the cart was there before or is the line of a named entry
OnlyNamedLines(m, c, before, after, names) ==
  \A j \in 1..Len(after) :
    \/ \E k \in 1..Len(before) : SameKey(before[k], after[j].serviceId, after[j].vendorId)
    \/ \E i \in 1..Len(names) :
         /\ EntryNamed(m, c, names[i]) # <<>>
         /\ SameKey(after[j], EntryNamed(m, c, names[i])[1].serviceId,
                    EntryNamed(m, c, names[i])[1].vendorId)

NamedLinesAdded(m, c, before, after, names) ==
  /\ \A i \in 1..Len(names) :
       EntryNamed(m, c, names[i]) # <<>> =>
         LineOfEntry(before, after, EntryNamed(m, c, names[i])[1])
  /\ OnlyNamedLines(m, c, before, after, names)

\* a turn CartWorkflow executed with cartAction "add" and named services,
\* whose text does not ask for a discounted item (tier 1)
NamedAddTurn ==
  /\ routed.n > 0
  /\ "analysis" \in DOMAIN call.arg
  /\ ExecutedHandlers = <<"CartWorkflow">>
  /\ CartActionOf(call.arg.analysis) = "add"
  /\ ServiceNamesOf(call.arg.analysis) # <<>>
  /\ ~isDiscountRequest(call.arg.userQuery)

\* C12: in a cart add turn that names services, each name is resolved in
\* lastShown first and in the registry's service entries only when lastShown
\* has no fuzzy match; the cart gains the line of each resolved entry (with
\* the lastShown entry's serviceId, vendorId and price, or price 0 from the
\* registry) and no line of a service that was not named.
C12_NamedAddResolves ==
  [][(routed'.n # routed.n /\ NamedAddTurn') =>
       NamedLinesAdded(userMemoryMap, call'.arg.userId[1],
                       CartOf(userMemoryMap, call'.arg.userId[1]),
                       CartOf(userMemoryMap', call'.arg.userId[1]),
                       ServiceNamesOf(call'.arg.analysis))]_vars

\* the same, for the turns whose text is not a generic add
C12_ByNameTierResolves ==
  [][(routed'.n # routed.n /\ NamedAddTurn'
        /\ ~isGenericAddRequest(call'.arg.userQuery)) =>
       NamedLinesAdded(userMemoryMap, call'.arg.userId[1],
                       CartOf(userMemoryMap, call'.arg.userId[1]),
                       CartOf(userMemoryMap', call'.arg.userId[1]),
                       ServiceNamesOf(call'.arg.analysis))]_vars

\* ---------------------------------------------------------------------
\* Properties of the page cursor (SpecPage)
\* ---------------------------------------------------------------------
\* C13: in a turn with a session identifier whose intent has
\* isPaginationRequest = true every catalog fetch uses the offset
\* (pageCursor + 1) * 10, pageCursor being the stored cursor at the start of
\* the turn; in a turn that is not a pagination request it uses offset 0.
C13_PaginationOffset ==
  IsTurn =>
    \A i \in 1..Len(call.arg.offsets) :
      call.arg.offsets[i] =
        IF call.arg.isPaginationRequest /\ call.chatId # ""
        THEN (call.arg.pageCursor + 1) * 10
        ELSE 0

\* the part of C13 that holds: without isPaginationRequest the offset is 0
C13_PlainTurnOffsetZero ==
  (IsTurn /\ ~call.arg.isPaginationRequest) =>
    \A i \in 1..Len(call.arg.offsets) : call.arg.offsets[i] = 0

\* ---------------------------------------------------------------------
\* Properties of lastShown (SpecRoute)
\* ---------------------------------------------------------------------
\* the last route call fetched the services of a resolved vendor
FetchedServices ==
  /\ routed.n > 0 /\ routed.result # <<>>
  /\ "isShowingServices" \in DOMAIN routed.result[1]
  /\ routed.result[1].isShowingServices

\* shown is, entry by entry and in order, the list of fetched rows
IsListOf(shown, rows) ==
  /\ Len(shown) = Len(rows)
  /\ \A i \in 1..Len(rows) :
       /\ shown[i].serviceId = rows[i].id
       /\ shown[i].serviceName = rows[i].name
       /\ shown[i].price = rows[i].price

\* C14: after ExplorationWorkflow fetched the services of a resolved vendor,
\* lastShown of the conversation is exactly the list of the services that
\* fetch returned, the empty list when it returned none.
C14_LastShownReplaced ==
  FetchedServices => IsListOf(LastShownOf(userMemoryMap, "c1"), routed.result[1].data)

\* the part of C14 that holds: a fetch that returned at least one service
\* replaces lastShown by the list of its services
C14_NonEmptyFetchReplaces ==
  (FetchedServices /\ routed.result[1].data # <<>>) =>
    IsListOf(LastShownOf(userMemoryMap, "c1"), routed.result[1].data)

\* ---------------------------------------------------------------------
\* Properties across turns (SpecFlow)
\* ---------------------------------------------------------------------
\* the last turn was an exploration turn that showed a non-empty list
ShowedServices ==
  /\ IsTurn /\ call.chatId # ""
  /\ TurnHandlers = <<"ExplorationWorkflow">>
  /\ call.arg.fetched # <<>>
  /\ IsListOf(LastShownOf(userMemoryMap, call.chatId), call.arg.fetched)

\* the cart of the conversation holds a line of the first service shown
FirstShownInCart(m, chatId, shown) ==
  HasLine(m, chatId, shown[1].serviceId, shown[1].vendorId)

\* C15: when an exploration turn of a conversation showed a non-empty list
\* and the next turn of that conversation is a generic add ("add it"), the
\* add turn puts the first service of that list in the conversation's cart.
C15_AddThisAddsFirstShown ==
  [][(/\ routed'.n # routed.n
      /\ ShowedServices
      /\ call'.chatId = call.chatId
      /\ call'.arg.genericAdd) =>
       FirstShownInCart(userMemoryMap', call.chatId,
                        LastShownOf(userMemoryMap, call.chatId))]_vars

\* the same for the requests that carry a userId equal to their chatId
C15_SameIdsAddFirstShown ==
  [][(/\ routed'.n # routed.n
      /\ ShowedServices
      /\ call'.chatId = call.chatId
      /\ call'.arg.genericAdd
      /\ call'.arg.userId = <<call.chatId>>) =>
       FirstShownInCart(userMemoryMap', call.chatId,
                        LastShownOf(userMemoryMap, call.chatId))]_vars

\* ---------------------------------------------------------------------
\* Properties of the saved location (SpecSessions)
\* ---------------------------------------------------------------------
\* the step is a call of one of the operations ops on session c
CallsOn(c, ops) == call'.chatId = c /\ call'.op \in ops

LocationWriters == {"saveUserLocation", "clearUserLocation", "clearChatHistory"}

Suspended(r) == inflight[r].pc # "idle"

SessionOf(r) == inflight[r].input.chatId

\* C17: turns of one conversation are processed serially: while a turn of
\* a session is suspended on a collaborator no other turn of that session
\* has been started (it would read the session's history and location and
\* later mutate its state).
C17_SerialPerSession ==
  \A r1, r2 \in Requests :
    (r1 # r2 /\ Suspended(r1) /\ Suspended(r2)) => SessionOf(r1) # SessionOf(r2)

\* turns of different sessions do interleave
C17_WitnessOtherSessions ==
  /\ Suspended("r1") /\ Suspended("r2")
  /\ SessionOf("r1") # SessionOf("r2")

\* ---------------------------------------------------------------------
\* Session isolation (SpecSessions)
\* ---------------------------------------------------------------------
\* what a session shows: its record, or nothing when it has none
SessionState(m, c) == IF c \in DOMAIN m THEN <<m[c]>> ELSE <<>>

InRetry == call.op = "retryWithBackoff"

\* the transient signals: status or code 503, 429 or 'UNAVAILABLE'
TransientSignal(e) ==
  \E f \in {"status", "code"} :
    f \in DOMAIN e /\ e[f] \in {Num("503"), Num("429"), Str("UNAVAILABLE")}

\* C19: when fn fails with an error that carries no transient signal
\* (status or code 503, 429 or 'UNAVAILABLE'), retryWithBackoff throws that
\* error at once: no delay follows the failure and fn is not invoked again.
C19_OnlyTransientRetried ==
  (InRetry /\ call.arg.lastError # <<>> /\ ~TransientSignal(call.arg.lastError[1])) =>
    call.arg.pc = "thrown"

\* the same for the errors whose message has neither 'overloaded' nor '503'
C19_PlainErrorsThrownAtOnce ==
  (/\ InRetry /\ call.arg.lastError # <<>>
   /\ ~TransientSignal(call.arg.lastError[1])
   /\ ~MessageIncludes(call.arg.lastError[1], <<"5", "0", "3">>)
   /\ ~MessageIncludes(call.arg.lastError[1], <<"o", "v", "e", "r", "l", "o", "a", "d", "e", "d">>)) =>
    call.arg.pc = "thrown"

\* ---------------------------------------------------------------------
\* Properties of analyzeUserQuery (SpecClassify)
\* ---------------------------------------------------------------------
Classified == call.op = "analyzeUserQuery"

\* the classifier call failed
ApiFailed == Classified /\ call.arg.answer.threw

\* the answer has no structured output and no text that is the JSON of an
\* object with the required fields
AnswerUnusable ==
  /\ Classified /\ ~call.arg.answer.threw
  /\ call.arg.answer.output = <<>>
  /\ IF call.arg.answer.text = <<>> THEN TRUE
     ELSE IF call.arg.answer.text[1].kind # "json" THEN TRUE
     ELSE ~SchemaAccepts(call.arg.answer.text[1].object)

NoCartAction(analysis) ==
  "isCartOperation" \notin DOMAIN analysis /\ "cartAction" \notin DOMAIN analysis

\* C20: on every failure of the classification step (the call failing, the
\* answer missing or unparsable) analyzeUserQuery returns an intent with
\* needsLocation = true and no cart action.
C20_SafeDefaultOnFailure ==
  (ApiFailed \/ AnswerUnusable) =>
    /\ call.ret.needsLocation = TRUE
    /\ NoCartAction(call.ret)

\* what holds on every failure: no cart action; needsLocation = true when
\* the call itself failed
C20_NoCartActionOnFailure ==
  /\ (ApiFailed \/ AnswerUnusable) => NoCartAction(call.ret)
  /\ ApiFailed => call.ret.needsLocation = TRUE

(***************************************************************************)
(* C21: a collaborator that fails does not make the turn fail              *)
(***************************************************************************)
FailedTurn == IsTurn /\ call.arg.failing.who # "nobody"

FriendlyMessages ==
  {HighDemandMessage, TooManyRequestsMessage, ConnectingMessage, IssueMessage}

\* a FlowOutput that carries a text: a voice or an error text
IsFlowOutput(out) ==
  /\ DOMAIN out \subseteq {"ai_voice", "markdown_text", "error"}
  /\ \/ VoiceOf(out) # <<>>
     \/ "error" \in DOMAIN out /\ out.error # <<>>

\* no text of out is the message of the error
NotRawError(out, error) ==
  "message" \in DOMAIN error =>
    /\ VoiceOf(out) # error.message
    /\ "error" \in DOMAIN out => out.error # error.message

\* the replies of the turns that end without asking the narrator
UnnarratedReplies == {CouldNotFindReply, LocationRequiredError, LocationRequestResponse}

\* the cart and the rows the narrator of the turn was given
TurnCart ==
  IF TurnHandlers = <<"ExplorationWorkflow">> THEN CartOf(userMemoryMap, call.chatId)
  ELSE IF call.arg.userIdGiven THEN CartOf(userMemoryMap, call.arg.userId[1])
  ELSE <<>>

TurnData ==
  IF TurnHandlers # <<"ExplorationWorkflow">> THEN [data |-> TurnCart, nested |-> FALSE]
  ELSE IF call.arg.calls # <<>> /\ call.arg.calls[Len(call.arg.calls)] = "fetchVendorServices"
  THEN [data |-> call.arg.fetched, nested |-> TRUE]
  ELSE [data |-> AnsweringEnv.vendors, nested |-> FALSE]

NarratorFailedTurn ==
  /\ FailedTurn
  /\ call.arg.failing.who = "narrator"
  /\ call.arg.reached = "completed"
  /\ call.arg.out \notin UnnarratedReplies

\* C21: in a turn where the classifier, the geocoder, the catalog or the
\* narrator fails, nearbyVendorsFlow returns a FlowOutput with a text that
\* is not the message of the error; what its catch returns carries one of
\* the fixed friendly messages; and when the narrator fails, the reply is
\* the fallback made of the rows and of the cart the narrator was given
C21_FailureGivesSafeReply ==
  FailedTurn =>
    /\ IsFlowOutput(call.arg.out)
    /\ NotRawError(call.arg.out, call.arg.failing.error)
    /\ call.arg.reached = "caught" =>
         /\ call.arg.out.error \in FriendlyMessages
         /\ call.arg.out.ai_voice = call.arg.out.error
    /\ NarratorFailedTurn =>
         call.arg.out = createFallbackResponse(TurnData, TurnCart,
                                               isShowingServices(TurnData))

\* a turn whose narrator failed while the cart had a line: the reply lists
\* the cart
C21_Witness ==
  /\ NarratorFailedTurn
  /\ TurnCart # <<>>
  /\ call.arg.out.markdown_text.cart = CartMarkdown(TurnCart)

(***************************************************************************)
(* C22: getChatHistory returns the last min(limit, stored) messages        *)
(***************************************************************************)
HistoryRead == call.op = "getChatHistory" /\ call.arg # <<>>

StoredMessages(c) == IF c \in DOMAIN userMemoryMap THEN userMemoryMap[c].messages ELSE <<>>

\* C22: for every limit >= 0 getChatHistory returns the last
\* min(limit, number stored) messages of the session in append order, never
\* more than limit, and the empty list for an unknown session
C22_HistoryLastN ==
  HistoryRead =>
    /\ Len(call.ret) <= call.arg[1]
    /\ call.ret = LastN(StoredMessages(call.chatId),
                        IF call.arg[1] < Len(StoredMessages(call.chatId))
                        THEN call.arg[1] ELSE Len(StoredMessages(call.chatId)))
    /\ call.chatId \notin DOMAIN userMemoryMap => call.ret = <<>>

\* the same for every limit >= 1
C22_PositiveLimitLastN ==
  (HistoryRead /\ call.arg[1] >= 1) =>
    /\ Len(call.ret) <= call.arg[1]
    /\ call.ret = LastN(StoredMessages(call.chatId),
                        IF call.arg[1] < Len(StoredMessages(call.chatId))
                        THEN call.arg[1] ELSE Len(StoredMessages(call.chatId)))
    /\ call.chatId \notin DOMAIN userMemoryMap => call.ret = <<>>

(***************************************************************************)
(* C23: the three tiers of a cart add turn (SpecAdd)                       *)
(***************************************************************************)
\* a turn CartWorkflow executed with cartAction "add"
AddTurn ==
  /\ routed.n > 0
  /\ "analysis" \in DOMAIN call.arg
  /\ ExecutedHandlers = <<"CartWorkflow">>
  /\ CartActionOf(call.arg.analysis) = "add"

\* the entries of lastShown with discount > 0, in order
DiscountedOf(m, c) ==
  LET WithDiscount(e) == e.discount > 0
  IN SelectSeq(LastShownOf(m, c), WithDiscount)

QuantityOfKey(cart, e) ==
  IF \E k \in 1..Len(cart) : SameKey(cart[k], e.serviceId, e.vendorId)
  THEN cart[CHOOSE k \in 1..Len(cart) : SameKey(cart[k], e.serviceId, e.vendorId)].quantity
  ELSE 0

\* the cart gained the entry e and nothing else: the line of e is there
\* with a larger quantity, every other line is as before, no other line
\* came
GainedOnly(before, after, e) ==
  /\ QuantityOfKey(after, e) > QuantityOfKey(before, e)
  /\ \A j \in 1..Len(after) :
       ~SameKey(after[j], e.serviceId, e.vendorId) =>
         \E k \in 1..Len(before) : before[k] = after[j]
  /\ Len(after) = Len(before) + (IF QuantityOfKey(before, e) = 0 THEN 1 ELSE 0)

DiscountTierApplies(m, c, userQuery) ==
  isDiscountRequest(userQuery) /\ DiscountedOf(m, c) # <<>>

GenericTierApplies(m, c, userQuery) ==
  isGenericAddRequest(userQuery) /\ LastShownOf(m, c) # <<>>

\* what the tiers ask of the cart before and after the turn
AddTiers(m, c, before, after, userQuery, analysis) ==
  IF DiscountTierApplies(m, c, userQuery)
  THEN /\ GainedOnly(before, after, DiscountedOf(m, c)[1])
       /\ QuantityOfKey(after, DiscountedOf(m, c)[1])
            = QuantityOfKey(before, DiscountedOf(m, c)[1]) + 1
  ELSE IF GenericTierApplies(m, c, userQuery)
  THEN GainedOnly(before, after, LastShownOf(m, c)[1])
  ELSE IF ServiceNamesOf(analysis) # <<>>
  THEN NamedLinesAdded(m, c, before, after, ServiceNamesOf(analysis))
  ELSE after = before

\* C23: a cart add turn resolves what to add in strict priority order: with
\* a discount keyword in the text and an entry of lastShown with
\* discount > 0, the first such entry is added and nothing else; otherwise,
\* with a generic add phrase and a non-empty lastShown, the first entry of
\* lastShown is added; otherwise the named services are resolved by name.
C23_AddTierOrder ==
  [][(routed'.n # routed.n /\ AddTurn') =>
       AddTiers(userMemoryMap, call'.arg.userId[1],
                CartOf(userMemoryMap, call'.arg.userId[1]),
                CartOf(userMemoryMap', call'.arg.userId[1]),
                call'.arg.userQuery, call'.arg.analysis)]_vars

\* an add turn whose text has the discount keyword and a generic phrase
\* and whose intent names a service and a quantity of two, after services
\* with a discount were shown: the discounted entry is in the cart
C23_Witness ==
  /\ AddTurn
  /\ isDiscountRequest(call.arg.userQuery)
  /\ isGenericAddRequest(call.arg.userQuery)
  /\ ServiceNamesOf(call.arg.analysis) # <<>>
  /\ QuantitiesOf(call.arg.analysis, <<>>) = <<<<2>>>>
  /\ DiscountedOf(userMemoryMap, call.arg.userId[1]) # <<>>
  /\ QuantityOfKey(CartOf(userMemoryMap, call.arg.userId[1]),
                   DiscountedOf(userMemoryMap, call.arg.userId[1])[1]) = 1

(***************************************************************************)
(* C24: the generic tier and the named services (SpecAdd)                  *)
(***************************************************************************)
\* every line the turn created or changed is the line of an entry one of
\* the names resolves to
ChangedLinesNamed(m, c, before, after, names) ==
  \A j \in 1..Len(after) :
    (\A k \in 1..Len(before) : before[k] # after[j]) =>
      \E i \in 1..Len(names) :
        /\ EntryNamed(m, c, names[i]) # <<>>
        /\ SameKey(after[j], EntryNamed(m, c, names[i])[1].serviceId,
                   EntryNamed(m, c, names[i])[1].vendorId)

\* C24: in a cart add turn whose intent names services and whose text has
\* no discount keyword, the lines added to the cart are the ones resolved
\* from the named services, never the first entry of lastShown chosen by
\* position.
C24_NamedNeverByPosition ==
  [][(routed'.n # routed.n /\ NamedAddTurn') =>
       ChangedLinesNamed(userMemoryMap, call'.arg.userId[1],
                         CartOf(userMemoryMap, call'.arg.userId[1]),
                         CartOf(userMemoryMap', call'.arg.userId[1]),
                         ServiceNamesOf(call'.arg.analysis))]_vars

\* the same for the turns whose text has no generic add phrase
C24_NamedWithoutGenericPhrase ==
  [][(routed'.n # routed.n /\ NamedAddTurn'
        /\ ~isGenericAddRequest(call'.arg.userQuery)) =>
       ChangedLinesNamed(userMemoryMap, call'.arg.userId[1],
                         CartOf(userMemoryMap, call'.arg.userId[1]),
                         CartOf(userMemoryMap', call'.arg.userId[1]),
                         ServiceNamesOf(call'.arg.analysis))]_vars

(***************************************************************************)
(* C25: quantities are paired with the names by index (SpecAdd)            *)
(***************************************************************************)
\* a cart add turn that reached the by-name tier
ByNameTurn(m) ==
  /\ NamedAddTurn
  /\ ~GenericTierApplies(m, call.arg.userId[1], call.arg.userQuery)

\* quantities[i] when supplied, 1 when missing or null
PairedQuantity(quantities, i) ==
  IF QuantityAt(quantities, i) # <<>> THEN QuantityAt(quantities, i)[1] ELSE 1

\* the quantities paired with the names from index i on that resolve to
\* the entry e, added up
RECURSIVE PairedSum(_, _, _, _, _, _)
PairedSum(m, c, names, quantities, e, i) ==
  IF i > Len(names) THEN 0
  ELSE (IF EntryNamed(m, c, names[i]) = <<e>> THEN PairedQuantity(quantities, i) ELSE 0)
       + PairedSum(m, c, names, quantities, e, i + 1)

QuantitiesPaired(m, c, before, after, names, quantities) ==
  \A i \in 1..Len(names) :
    EntryNamed(m, c, names[i]) # <<>> =>
      QuantityOfKey(after, EntryNamed(m, c, names[i])[1])
        = QuantityOfKey(before, EntryNamed(m, c, names[i])[1])
          + PairedSum(m, c, names, quantities, EntryNamed(m, c, names[i])[1], 1)

\* C25: in a cart add turn that resolves the named services, the line of
\* serviceNames[i] is added with quantity quantities[i] when that element
\* is supplied and with quantity 1 when it is missing or null; a name that
\* is not found does not shift the pairing of the names after it.
C25_QuantitiesByIndex ==
  [][(routed'.n # routed.n /\ ByNameTurn(userMemoryMap)') =>
       QuantitiesPaired(userMemoryMap, call'.arg.userId[1],
                        CartOf(userMemoryMap, call'.arg.userId[1]),
                        CartOf(userMemoryMap', call'.arg.userId[1]),
                        ServiceNamesOf(call'.arg.analysis),
                        QuantitiesOf(call'.arg.analysis, <<>>))]_vars

\* the same for the turns in which no supplied quantity is 0
C25_NonZeroQuantitiesByIndex ==
  [][(/\ routed'.n # routed.n /\ ByNameTurn(userMemoryMap)'
      /\ \A i \in 1..Len(QuantitiesOf(call'.arg.analysis, <<>>)) :
           QuantitiesOf(call'.arg.analysis, <<>>)[i] # <<0>>) =>
       QuantitiesPaired(userMemoryMap, call'.arg.userId[1],
                        CartOf(userMemoryMap, call'.arg.userId[1]),
                        CartOf(userMemoryMap', call'.arg.userId[1]),
                        ServiceNamesOf(call'.arg.analysis),
                        QuantitiesOf(call'.arg.analysis, <<>>))]_vars

(***************************************************************************)
(* Cart remove turns                                                       *)
(***************************************************************************)
\* the last step was a cart turn of the given action that CartWorkflow ran
EditTurn(action) ==
  /\ call.op = "route"
  /\ "cart" \in DOMAIN call.arg
  /\ CartActionOf(call.arg.analysis) = action
  /\ routed.executed # <<>>

\* the cart line fuzzy-matches the requested name
MatchesName(line, name) == serviceNamesMatch(line.serviceName, normalizeServiceName(name))

MatchedIn(cart, name) == \E i \in 1..Len(cart) : MatchesName(cart[i], name)

\* the lines of cart matching none of the names, in order
RECURSIVE UnrequestedLines(_, _)
UnrequestedLines(cart, names) ==
  IF cart = <<>> THEN <<>>
  ELSE (IF \E k \in 1..Len(names) : MatchesName(Head(cart), names[k]) THEN <<>>
        ELSE <<Head(cart)>>) \o UnrequestedLines(Tail(cart), names)

\* the lines of after that were lines of before
RECURSIVE KeptLines(_, _)
KeptLines(after, before) ==
  IF after = <<>> THEN <<>>
  ELSE (IF Head(after) \in Range(before) THEN <<Head(after)>> ELSE <<>>)
       \o KeptLines(Tail(after), before)

\* the turn's reply, or what the narrator was handed, carries the name as
\* one that was not found
NotFoundReported(name) ==
  \/ \E t \in Range(call.arg.told) : name \in Range(t.notFound)
  \/ /\ Len(routed.result[1].ai_voice) = 4
     /\ routed.result[1].ai_voice[3] = "Could not find in cart"
     /\ name \in Range(routed.result[1].ai_voice[4])

\* what a remove turn does to the cart: for every requested name matching a
\* line of the cart the turn started with, a matching line is gone; the
\* lines matching no requested name stay as they were
RemoveEffect(before, after, names) ==
  /\ \A k \in 1..Len(names) :
       MatchedIn(before, names[k]) =>
         \E i \in 1..Len(before) :
           MatchesName(before[i], names[k]) /\ before[i] \notin Range(after)
  /\ \A i \in 1..Len(after) : after[i] \in Range(before)
  /\ UnrequestedLines(before, names) = UnrequestedLines(after, names)

\* C26: in a cart remove turn, for every requested name, a line of the cart
\* matching it is removed when there is one; when there is none the name is
\* reported as not found and nothing is removed for it; the lines matching
\* no requested name are left unchanged.
C26_RemoveByName ==
  (EditTurn("remove") /\ ServiceNamesOf(call.arg.analysis) # <<>>) =>
    /\ RemoveEffect(call.arg.cart, CartOf(userMemoryMap, "c1"),
                    call.arg.analysis.serviceNames)
    /\ \A k \in 1..Len(call.arg.analysis.serviceNames) :
         ~MatchedIn(call.arg.cart, call.arg.analysis.serviceNames[k]) =>
           NotFoundReported(call.arg.analysis.serviceNames[k])

\* C26, the cart alone: a remove turn removes a matching line for every
\* requested name that has one, puts the names matching no line on the
\* handler's not-found list, and leaves the other lines unchanged.
C26_RemoveEffectOnCart ==
  (EditTurn("remove") /\ ServiceNamesOf(call.arg.analysis) # <<>>) =>
    /\ RemoveEffect(call.arg.cart, CartOf(userMemoryMap, "c1"),
                    call.arg.analysis.serviceNames)
    /\ \A k \in 1..Len(call.arg.analysis.serviceNames) :
         ~MatchedIn(call.arg.cart, call.arg.analysis.serviceNames[k])
           <=> call.arg.analysis.serviceNames[k] \in Range(call.arg.notFound)

\* a remove turn on a cart of two lines took one line and did not match
\* another requested name
C26_RemoveSeen ==
  /\ EditTurn("remove")
  /\ Len(call.arg.cart) = 2
  /\ Len(CartOf(userMemoryMap, "c1")) = 1
  /\ call.arg.notFound # <<>>

(***************************************************************************)
(* Cart update turns                                                       *)
(***************************************************************************)
\* the indices of the requested names whose first matching line is line i
NamesOfLine(cart, names, i) ==
  {k \in 1..Len(names) :
     names[k] # <<>> /\ FindIndexInCart(cart, normalizeServiceName(names[k])) = i}

\* what the update asked of one line does to it: gone for a quantity <= 0,
\* the quantity alone changed for a quantity > 0, as it was without one
LineUpdated(line, after, quantity) ==
  IF quantity = <<>> THEN line \in Range(after)
  ELSE IF quantity[1] <= 0
  THEN \A j \in 1..Len(after) : ~SameKey(after[j], line.serviceId, line.vendorId)
  ELSE [line EXCEPT !.quantity = quantity[1]] \in Range(after)

\* what an update turn does to the cart, line by line of the cart the turn
\* started with; a line asked for by two names is left out
UpdateEffect(before, after, names, quantities) ==
  /\ \A i \in 1..Len(before) :
       /\ NamesOfLine(before, names, i) = {} => before[i] \in Range(after)
       /\ \A k \in NamesOfLine(before, names, i) :
            NamesOfLine(before, names, i) = {k} =>
              LineUpdated(before[i], after, QuantityAt(quantities, k))
  /\ \A j \in 1..Len(after) :
       \E i \in 1..Len(before) :
         SameKey(after[j], before[i].serviceId, before[i].vendorId)
  /\ UnrequestedLines(before, names) = UnrequestedLines(after, names)

\* C27: in a cart update turn, for each requested name matching a cart
\* line, a supplied quantity <= 0 removes that line, a supplied quantity > 0
\* sets the line's quantity and leaves its other fields unchanged, and no
\* quantity leaves the line unchanged; the names matching no line are
\* reported as not found and change nothing.
C27_UpdateByName ==
  (EditTurn("update") /\ ServiceNamesOf(call.arg.analysis) # <<>>) =>
    /\ UpdateEffect(call.arg.cart, CartOf(userMemoryMap, "c1"),
                    call.arg.analysis.serviceNames,
                    QuantitiesOf(call.arg.analysis, <<>>))
    /\ \A k \in 1..Len(call.arg.analysis.serviceNames) :
         ~MatchedIn(call.arg.cart, call.arg.analysis.serviceNames[k]) =>
           NotFoundReported(call.arg.analysis.serviceNames[k])

\* C27, the cart alone: an update turn removes, sets the quantity of, or
\* leaves each requested line as the quantity supplied for it says, puts
\* the names matching no line on the handler's not-found list, and leaves
\* the other lines unchanged.
C27_UpdateEffectOnCart ==
  (EditTurn("update") /\ ServiceNamesOf(call.arg.analysis) # <<>>) =>
    /\ UpdateEffect(call.arg.cart, CartOf(userMemoryMap, "c1"),
                    call.arg.analysis.serviceNames,
                    QuantitiesOf(call.arg.analysis, <<>>))
    /\ \A k \in 1..Len(call.arg.analysis.serviceNames) :
         ~MatchedIn(call.arg.cart, call.arg.analysis.serviceNames[k])
           <=> call.arg.analysis.serviceNames[k] \in Range(call.arg.notFound)

\* an update turn set a quantity on one line, and did not match another name
C27_UpdateSeen ==
  /\ EditTurn("update")
  /\ call.arg.notFound # <<>>
  /\ \E i \in 1..Len(call.arg.cart) :
       /\ call.arg.cart[i].quantity # 2
       /\ [call.arg.cart[i] EXCEPT !.quantity = 2] \in Range(CartOf(userMemoryMap, "c1"))

(***************************************************************************)
(* Cart clear and view turns                                               *)
(***************************************************************************)
\* the step is a cart turn of the given action that CartWorkflow ran
EditStep(action) ==
  /\ routed'.n # routed.n
  /\ call'.op = "route"
  /\ "cart" \in DOMAIN call'.arg
  /\ CartActionOf(call'.arg.analysis) = action
  /\ routed'.executed # <<>>

\* location, registry, page cursor and services shown last of conversation
\* c, as the getters of memory.ts give them without a record
SessionFrame(m, c) ==
  IF c \in DOMAIN m
  THEN [location |-> m[c].location, store |-> m[c].store,
        lastServicePage |-> m[c].lastServicePage,
        lastShownServices |-> m[c].lastShownServices]
  ELSE [location |-> <<>>, store |-> <<>>, lastServicePage |-> 0,
        lastShownServices |-> <<>>]

\* the last message stored for conversation c, as a sequence of 0 or 1
LastMessageOf(m, c) ==
  IF c \in DOMAIN m /\ m[c].messages # <<>>
  THEN <<m[c].messages[Len(m[c].messages)]>> ELSE <<>>

\* C28: a cart clear turn leaves the cart empty, returns the fixed
\* confirmation whatever the narrator would have answered, and leaves the
\* location, registry, page cursor and services shown last unchanged; a
\* cart view turn does not change the cart.
C28_ClearAndViewFrame ==
  [][/\ EditStep("clear") =>
         /\ CartOf(userMemoryMap', "c1") = <<>>
         /\ routed'.result = <<ClearedReply>>
         /\ LastMessageOf(userMemoryMap', "c1") # <<>>
         /\ LastMessageOf(userMemoryMap', "c1")[1].content = ClearedReply.ai_voice
         /\ SessionFrame(userMemoryMap', "c1") = SessionFrame(userMemoryMap, "c1")
     /\ EditStep("view") =>
         CartOf(userMemoryMap', "c1") = CartOf(userMemoryMap, "c1")]_vars

\* a cart of two lines was cleared in a conversation that has a location,
\* a registry, a page cursor and services shown, while the narrator failed
C28_ClearSeen ==
  /\ EditTurn("clear")
  /\ Len(call.arg.cart) = 2
  /\ call.arg.narratorThrew
  /\ CartOf(userMemoryMap, "c1") = <<>>
  /\ SessionFrame(userMemoryMap, "c1").store # <<>>
  /\ SessionFrame(userMemoryMap, "c1").location # <<>>
  /\ SessionFrame(userMemoryMap, "c1").lastServicePage = 1
  /\ SessionFrame(userMemoryMap, "c1").lastShownServices # <<>>

\* a cart of two lines was viewed
C28_ViewSeen ==
  /\ EditTurn("view")
  /\ Len(call.arg.cart) = 2
  /\ Len(CartOf(userMemoryMap, "c1")) = 2

(***************************************************************************)
(* Vendor resolution of the exploration handler                            *)
(***************************************************************************)
\* the step is an exploration turn with a location
ResolveStep ==
  /\ routed'.n # routed.n
  /\ call'.op = "route"
  /\ "calls" \in DOMAIN call'.arg
  /\ call'.arg.location # <<>>

\* the vendors the registry of conversation c holds
RegistryVendors(m, c) ==
  IF c \in DOMAIN m
  THEN {m[c].store[i] : i \in {j \in 1..Len(m[c].store) : m[c].store[j].type = "vendor"}}
  ELSE {}

\* the vendors of the registry stored under the name
NamedInRegistry(m, c, name) ==
  {v \in RegistryVendors(m, c) : toLowerCase(v.name) = Trim(toLowerCase(name))}

\* the vendors of the registry mentioned no earlier than any other
MostRecentlyMentioned(m, c) ==
  {v \in RegistryVendors(m, c) :
     \A w \in RegistryVendors(m, c) : w.lastMentioned <= v.lastMentioned}

\* the fetched vendors whose name contains the requested one or is
\* contained in it
FuzzyFetched(vendors, name) ==
  {i \in 1..Len(vendors) :
     \/ Includes(toLowerCase(vendors[i].store_name), Trim(toLowerCase(name)))
     \/ Includes(Trim(toLowerCase(name)), toLowerCase(vendors[i].store_name))}

\* every fetched vendor is in the registry of c, mentioned at the turn's time
AllRegistered(m, c, vendors, now) ==
  \A i \in 1..Len(vendors) :
    \E v \in RegistryVendors(m, c) :
      v.id = vendors[i].id /\ v.name = vendors[i].store_name /\ v.lastMentioned = now

\* the turn fetched the services of one of the vendors of ids, last of all:
\* the services it was given are the ones shown last, under that vendor
ServicesFetchedOf(m, c, arg, ids) ==
  /\ arg.calls # <<>>
  /\ arg.calls[Len(arg.calls)] = "fetchVendorServices"
  /\ arg.services # <<>> =>
       /\ m[c].lastShownServices # <<>>
       /\ \A e \in Range(m[c].lastShownServices) : e.vendorId \in ids /\ e.shownAt = arg.now

\* the turn ended by fetching the nearby vendors, registered them, and
\* fetched no vendor's services
FellBackToNearby(m, c, arg) ==
  /\ arg.calls # <<>>
  /\ arg.calls[Len(arg.calls)] = "fetchVendorsFromDB"
  /\ "fetchVendorServices" \notin Range(arg.calls)
  /\ AllRegistered(m, c, arg.vendors, arg.now)

\* a turn naming a vendor
ResolvedByName(before, after, c, arg, name) ==
  IF NamedInRegistry(before, c, name) # {}
  THEN /\ arg.calls = <<"fetchVendorServices">>
       /\ ServicesFetchedOf(after, c, arg, {v.id : v \in NamedInRegistry(before, c, name)})
  ELSE /\ arg.calls[1] = "fetchVendorsFromDB"
       /\ AllRegistered(after, c, arg.vendors, arg.now)
       /\ IF FuzzyFetched(arg.vendors, name) # {}
          THEN /\ arg.calls = <<"fetchVendorsFromDB", "fetchVendorServices">>
               /\ ServicesFetchedOf(after, c, arg,
                    {arg.vendors[i].id : i \in FuzzyFetched(arg.vendors, name)})
          ELSE FellBackToNearby(after, c, arg)

\* a turn asking for services without naming a vendor
ResolvedByRecency(before, after, c, arg) ==
  IF RegistryVendors(before, c) # {}
  THEN /\ arg.calls = <<"fetchVendorServices">>
       /\ ServicesFetchedOf(after, c, arg, {v.id : v \in MostRecentlyMentioned(before, c)})
  ELSE FellBackToNearby(after, c, arg) /\ arg.calls = <<"fetchVendorsFromDB">>

Resolution(before, after, c, arg) ==
  IF VendorNameOfAnalysis(arg.analysis) # <<>>
  THEN ResolvedByName(before, after, c, arg, arg.analysis.vendorName)
  ELSE IF WantsServices(arg.analysis)
  THEN ResolvedByRecency(before, after, c, arg)
  ELSE FellBackToNearby(after, c, arg) /\ arg.calls = <<"fetchVendorsFromDB">>

\* C29: the exploration handler resolves the vendor in this order: with a
\* vendor name the registry is consulted first, and only when it does not
\* know the name is the catalog's nearby list fetched, every fetched vendor
\* registered and the name fuzzy-matched against the list; without a name
\* but with services wanted the registry's most recently mentioned vendor is
\* used; when no vendor is resolved the turn fetches and registers the
\* nearby vendors and fetches no vendor's services.
C29_ResolutionOrder ==
  [][(ResolveStep /\ call'.arg.chatId # <<>>) =>
       Resolution(userMemoryMap, userMemoryMap', call'.arg.chatId[1], call'.arg)]_vars

\* a turn named a vendor the registry did not know, fetched the nearby
\* vendors, matched the name among them and showed that vendor's services,
\* and a later turn asked for services without a name
C29_Witness ==
  /\ routed.n = 2
  /\ "calls" \in DOMAIN call.arg
  /\ WantsServices(call.arg.analysis)
  /\ VendorNameOfAnalysis(call.arg.analysis) = <<>>
  /\ call.arg.calls = <<"fetchVendorServices">>
  /\ call.arg.chatId = <<"c1">>
  /\ \E v, w \in RegistryVendors(userMemoryMap, "c1") : v.lastMentioned < w.lastMentioned
  /\ \A e \in Range(userMemoryMap["c1"].lastShownServices) : e.vendorId = 2 /\ e.shownAt = 3

(***************************************************************************)
(* Termination of retryWithBackoff                                         *)
(***************************************************************************)
\* the call of retryWithBackoff has not returned or thrown yet
RetryPending == InRetry /\ call.arg.pc \in {"try", "sleep"}

RetryFinished == InRetry /\ call.arg.pc \in {"returned", "thrown"}

\* what holds of a call of retryWithBackoff with arguments and log a
RetryBounded(a) ==
  /\ a.invocations = Len(a.outcomes)
  /\ a.invocations <= a.maxRetries + 1
  /\ Len(a.delays) <= a.maxRetries
  /\ Len(a.delays) = IF a.pc = "try" THEN a.invocations ELSE a.invocations - 1
  /\ \A k \in 1..Len(a.delays) : a.delays[k] = a.initialDelay * 2^(k - 1)
  /\ \A i \in 1..(Len(a.outcomes) - 1) : ~a.outcomes[i].ok
  /\ a.pc = "returned" <=> (a.outcomes # <<>> /\ a.outcomes[Len(a.outcomes)].ok)
  /\ a.pc = "returned" => a.value = <<a.outcomes[Len(a.outcomes)].value>>
  /\ a.pc = "thrown" => a.lastError = <<a.outcomes[Len(a.outcomes)].error>>
  /\ (a.invocations = a.maxRetries + 1 /\ ~a.outcomes[Len(a.outcomes)].ok) =>
       a.pc = "thrown"

\* C30: retryWithBackoff(fn, maxRetries, initialDelay) terminates when every
\* call of fn does: fn is invoked at most maxRetries + 1 times, the wait
\* before the k-th retry is initialDelay * 2^(k-1), the value of the first
\* successful call is returned with no call after it, and after
\* maxRetries + 1 failures the error of the last call is thrown.
C30_RetryTerminates ==
  /\ [](InRetry => RetryBounded(call.arg))
  /\ RetryPending ~> RetryFinished

\* three retries were waited for 1000, 2000 and 4000 and the fourth call
\* failed too: its error was thrown
C30_Witness ==
  /\ InRetry
  /\ call.arg.pc = "thrown"
  /\ call.arg.maxRetries = 3
  /\ call.arg.invocations = 4
  /\ call.arg.delays = <<1000, 2000, 4000>>
  /\ call.arg.lastError = <<call.arg.outcomes[4].error>>
  /\ call.arg.outcomes[3].error # call.arg.outcomes[4].error

(***************************************************************************)
(* The two canHandle predicates (SpecRoute)                                *)
(***************************************************************************)
\* C31: at most one of CartWorkflow.canHandle and
\* ExplorationWorkflow.canHandle is true of a context, so route executes
\* the same handler, with the same result, when the two handlers are
\* registered the other way round (routed.reversed).
C31_PredicatesExclusive ==
  routed.n > 0 =>
    /\ ~(routed.can["CartWorkflow"] /\ routed.can["ExplorationWorkflow"])
    /\ routed.reversed = routed.executed

\* a cart turn of a known user: only CartWorkflow can handle it, and it is
\* the one executed in either order
C31_Witness ==
  /\ routed.n > 0
  /\ routed.can["CartWorkflow"] /\ ~routed.can["ExplorationWorkflow"]
  /\ ExecutedHandlers = <<"CartWorkflow">>
  /\ routed.reversed = routed.executed

(***************************************************************************)
(* The messages a turn stores (SpecFlow)                                   *)
(***************************************************************************)
\* the step is a turn of a conversation that a handler executed and that
\* ran to its end
RoutedTurnStep ==
  /\ routed'.n # routed.n
  /\ IsTurn'
  /\ call'.chatId # ""
  /\ call'.arg.executed # <<>>
  /\ call'.arg.reached = "completed"

HistoryOf(m, c) == IF c \in DOMAIN m THEN m[c].messages ELSE <<>>

\* the user's query and the assistant's reply of the turn described by arg
TurnMessages(arg) ==
  <<[role |-> "user", content |-> arg.userQuery],
    [role |-> "assistant", content |-> VoiceOf(arg.out)]>>

\* C32: every turn dispatched through the router that returns a reply
\* appends exactly two messages to the conversation's history, the user's
\* corrected query and then the assistant's reply, whichever handler took
\* the turn (stated while the history is below its bound).
C32_TwoMessagesPerTurn ==
  [][(RoutedTurnStep /\ Len(HistoryOf(userMemoryMap, call'.chatId)) + 2 <= MESSAGE_LIMIT) =>
       HistoryOf(userMemoryMap', call'.chatId)
         = HistoryOf(userMemoryMap, call'.chatId) \o TurnMessages(call'.arg)]_vars

\* C32, the exploration turns alone: a turn that ExplorationWorkflow took
\* appends the query and the reply once.
C32_ExplorationAppendsTwo ==
  [][(/\ RoutedTurnStep
      /\ call'.arg.executed[1].handler = "ExplorationWorkflow"
      /\ Len(HistoryOf(userMemoryMap, call'.chatId)) + 2 <= MESSAGE_LIMIT) =>
       HistoryOf(userMemoryMap', call'.chatId)
         = HistoryOf(userMemoryMap, call'.chatId) \o TurnMessages(call'.arg)]_vars

\* a cart turn on a fresh history left more than the two messages
C32_CartTurnSeen ==
  /\ IsTurn /\ call.chatId = "c1"
  /\ call.arg.executed # <<>>
  /\ call.arg.executed[1].handler = "CartWorkflow"
  /\ routed.n = 1
  /\ Len(HistoryOf(userMemoryMap, "c1")) > 2

(***************************************************************************)
(* The life of a session record (SpecLifecycle)                            *)
(***************************************************************************)
\* everything the getters give for conversation c is the default
ReadsAsDefaults(m, c) ==
  /\ getChatHistory(m, c, <<>>) = <<>>
  /\ getUserLocation(m, c) = <<>>
  /\ \A type \in {"vendor", "service", "category"} : getStoreItemsByType(m, c, type) = <<>>
  /\ getCart(m, c) = <<>>
  /\ getLastServicePage(m, c) = 0
  /\ getLastShownServices(m, c) = <<>>

\* C33: a session's record is destroyed only by clearChatHistory of that
\* session, which removes all of its state at once: afterwards every getter
\* gives its default and getAllChatIds does not list the session; every
\* other operation, clearCart, clearUserLocation and the evicting saves
\* among them, leaves every known session known.
C33_DestroyedOnlyByClear ==
  [][/\ \A c \in AllChats :
          (c \in getAllChatIds(userMemoryMap) /\ c \notin getAllChatIds(userMemoryMap')) =>
            (call'.op = "clearChatHistory" /\ call'.chatId = c)
     /\ (call'.op = "clearChatHistory" /\ call' # call) =>
          /\ call'.chatId \notin getAllChatIds(userMemoryMap')
          /\ ReadsAsDefaults(userMemoryMap', call'.chatId)]_vars

\* a session with messages, a full registry and a cart line was cleared
\* and is not listed, next to a session whose cart and location were
\* cleared and which is still listed
C33_Witness ==
  /\ call.op = "clearChatHistory" /\ call.chatId = "c1"
  /\ call.arg.before # <<>>
  /\ Len(call.arg.before[1].messages) = MESSAGE_LIMIT
  /\ Len(call.arg.before[1].store) = STORE_LIMIT
  /\ call.arg.before[1].cart # <<>>
  /\ getAllChatIds(userMemoryMap) = {"c2"}
  /\ getUserLocation(userMemoryMap, "c2") = <<>>

(***************************************************************************)
(* The lists of a cart remove turn (SpecEdit)                              *)
(***************************************************************************)
\* a remove turn with names, the cart it started with, and its two lists
RemoveTurn == EditTurn("remove") /\ ServiceNamesOf(call.arg.analysis) # <<>>

\* every requested name went to one list: the unmatched ones, in order, are
\* the not-found list, and the removed list has one entry for each other
ListsPartition(cart, names, removed, notFound) ==
  /\ Len(removed) + Len(notFound) = Len(names)
  /\ \A k \in 1..Len(names) :
       names[k] \in Range(notFound) <=> ~MatchedIn(cart, names[k])

\* C34: in a cart remove turn every requested name is put on exactly one of
\* the removed and not-found lists, and an entry is on the removed list only
\* if a matching line was really deleted for it: the cart loses as many
\* lines as the removed list has entries, also when two requested names
\* match the same cart line.
C34_RemovedAreDeleted ==
  RemoveTurn =>
    /\ ListsPartition(call.arg.cart, call.arg.analysis.serviceNames,
                      call.arg.removed, call.arg.notFound)
    /\ Len(call.arg.cart) - Len(CartOf(userMemoryMap, "c1")) = Len(call.arg.removed)

\* C34, the lists alone: every requested name is on exactly one list, the
\* not-found one exactly when no line of the cart matched it.
C34_ListsPartition ==
  RemoveTurn => ListsPartition(call.arg.cart, call.arg.analysis.serviceNames,
                               call.arg.removed, call.arg.notFound)

\* two requested names matched the same line: two entries on the removed
\* list, one line gone
C34_SameLineTwice ==
  /\ RemoveTurn
  /\ Len(call.arg.removed) = 2
  /\ call.arg.removed[1] = call.arg.removed[2]
  /\ Len(call.arg.cart) - Len(CartOf(userMemoryMap, "c1")) = 1

(***************************************************************************)
(* The item just saved (SpecStore)                                         *)
(***************************************************************************)
\* C35: right after saveStoreItem(session, item) the registry of the
\* session has an entry with the (type, id, lower-cased name) key of item,
\* also when the registry was full before the call and whatever the
\* lastMentioned values of the entries and of item, equal ones included.
C35_SavedItemPresent ==
  call.op = "saveStoreItem" =>
    \E i \in 1..Len(userMemoryMap[call.chatId].store) :
      SameStoreKey(userMemoryMap[call.chatId].store[i], call.arg.item)

\* C35, short of the limit or a newer item: the saved item is in the
\* registry when the registry was not full, when the item's key was there
\* already, or when some entry had an older lastMentioned than the item.
C35_PresentUnlessOldest ==
  (/\ call.op = "saveStoreItem"
   /\ \/ call.arg.lenBefore < STORE_LIMIT
      \/ \E i \in 1..Len(userMemoryMap[call.chatId].store) :
           userMemoryMap[call.chatId].store[i].lastMentioned < call.arg.item.lastMentioned)
    => \E i \in 1..Len(userMemoryMap[call.chatId].store) :
         userMemoryMap[call.chatId].store[i] = call.arg.item

\* a full registry was given a new item as recent as its entries, and the
\* item is not in it
C35_NewItemEvicted ==
  /\ call.op = "saveStoreItem"
  /\ call.arg.lenBefore = STORE_LIMIT
  /\ \A i \in 1..Len(userMemoryMap[call.chatId].store) :
       /\ userMemoryMap[call.chatId].store[i].lastMentioned = call.arg.item.lastMentioned
       /\ ~SameStoreKey(userMemoryMap[call.chatId].store[i], call.arg.item)

(***************************************************************************)
(* Concurrent add turns (SpecAdds)                                         *)
(***************************************************************************)
\* the quantities of the addToCart calls made for a key, summed
RECURSIVE AddedQuantity(_, _, _)
AddedQuantity(log, serviceId, vendorId) ==
  IF log = <<>> THEN 0
  ELSE (IF SameKey(Head(log), serviceId, vendorId) THEN Head(log).quantity ELSE 0)
       + AddedQuantity(Tail(log), serviceId, vendorId)

\* the quantities of the cart lines of a key, summed
RECURSIVE QuantityInCart(_, _, _)
QuantityInCart(cart, serviceId, vendorId) ==
  IF cart = <<>> THEN 0
  ELSE (IF SameKey(Head(cart), serviceId, vendorId) THEN Head(cart).quantity ELSE 0)
       + QuantityInCart(Tail(cart), serviceId, vendorId)

OneLinePerKey(cart) ==
  \A i, j \in 1..Len(cart) :
    SameKey(cart[i], cart[j].serviceId, cart[j].vendorId) => i = j

\* C36: under any interleaving of concurrent turns of one session the cart
\* has at most one line per (serviceId, vendorId) and no added quantity is
\* lost: the line of a key has the sum of the quantities of the addToCart
\* calls made for it, so two concurrent adds of one service with quantity 1
\* end with one line of quantity 2.
C36_NoAddLost ==
  /\ OneLinePerKey(CartOf(userMemoryMap, "c1"))
  /\ \A serviceId \in 1..2, vendorId \in 1..2 :
       QuantityInCart(CartOf(userMemoryMap, "c1"), serviceId, vendorId)
         = AddedQuantity(appendLog["c1"], serviceId, vendorId)

\* two turns were adding at once, each added the same service with
\* quantity 1, and the cart has one line of it with quantity 2
C36_Witness ==
  /\ call.op = "addToCart"
  /\ call.arg.others = {"adding"}
  /\ \A r \in Requests : inflight[r].pc = "adding" /\ inflight[r].toAdd = <<>>
  /\ Len(appendLog["c1"]) = 2
  /\ \A i \in 1..2 : appendLog["c1"][i].quantity = 1
  /\ Len(CartOf(userMemoryMap, "c1")) = 1
  /\ CartOf(userMemoryMap, "c1")[1].quantity = 2

(***************************************************************************)
(* The saved location in later turns (SpecLocate)                          *)
(***************************************************************************)
LocateTurnDone == call.op = "nearbyVendorsFlow" /\ "savedBefore" \in DOMAIN call.arg

\* the request or the intent of the turn carries a place that is not the
\* saved one
OtherPlaceGiven(arg) ==
  \/ arg.where.locationName # <<>> /\ arg.where.locationName[1] # arg.savedBefore[1].name
  \/ arg.where.latitude # <<>> /\ arg.where.latitude[1] # arg.savedBefore[1].latitude
  \/ arg.locationName # <<>> /\ arg.locationName[1] # arg.savedBefore[1].name

\* C37: once a conversation has a saved location, every later turn uses
\* it: handleLocation calls neither the geocoder nor saveUserLocation and
\* the saved location is as it was after the turn, also when the request
\* or the intent carries another location; the geocoder is called and a
\* location saved only in turns that start with no saved location.
C37_SavedLocationUsed ==
  LocateTurnDone =>
    /\ call.arg.savedBefore # <<>> =>
         /\ ~call.arg.asked /\ ~call.arg.saved
         /\ getUserLocation(userMemoryMap, "c1") = call.arg.savedBefore
         /\ call.arg.reached \in {"completed", "unhandled"} =>
              call.arg.located = call.arg.savedBefore
    /\ (call.arg.asked \/ call.arg.saved) => call.arg.savedBefore = <<>>

\* a turn naming another place than the saved one went through with the
\* saved one
C37_Witness ==
  /\ LocateTurnDone
  /\ call.arg.savedBefore # <<>>
  /\ OtherPlaceGiven(call.arg)
  /\ call.arg.reached = "completed"
  /\ call.arg.located = call.arg.savedBefore

\* a turn that started with no saved location asked the geocoder and saved
C37_GeocodedSeen ==
  /\ LocateTurnDone
  /\ call.arg.savedBefore = <<>>
  /\ call.arg.asked /\ call.arg.saved
  /\ getUserLocation(userMemoryMap, "c1") # <<>>

(***************************************************************************)
(* The page cursor over the turns (SpecPage)                               *)
(***************************************************************************)
\* the step is a turn of conversation c1
PageTurnStep == routed'.n # routed.n /\ call'.chatId = "c1"

\* C38: the page cursor is never negative and a turn changes it only when
\* its catalog query returned at least one row: a pagination turn with
\* results advances it by exactly 1 (to floor(offset / 10), the offset
\* being (cursor + 1) * 10), a turn with results that is no pagination
\* request resets it to 0, and a turn with an empty result leaves it as it
\* was.
C38_CursorFollowsTurns ==
  [][PageTurnStep =>
       /\ getLastServicePage(userMemoryMap', "c1") >= 0
       /\ getLastServicePage(userMemoryMap', "c1") =
            IF call'.arg.fetched = <<>> THEN getLastServicePage(userMemoryMap, "c1")
            ELSE IF call'.arg.isPaginationRequest
            THEN getLastServicePage(userMemoryMap, "c1") + 1
            ELSE 0]_vars

\* C38, what holds: the cursor is never negative, and a turn whose catalog
\* query returned no row leaves it as it was.
C38_EmptyResultKeepsCursor ==
  [][/\ getLastServicePage(userMemoryMap', "c1") >= 0
     /\ (PageTurnStep /\ call'.arg.fetched = <<>>) =>
          getLastServicePage(userMemoryMap', "c1") = getLastServicePage(userMemoryMap, "c1")]_vars

\* a pagination turn fetched services and the cursor is where it was
C38_CursorStuck ==
  /\ IsTurn /\ call.chatId = "c1"
  /\ call.arg.isPaginationRequest
  /\ call.arg.fetched # <<>>
  /\ getLastServicePage(userMemoryMap, "c1") = call.arg.pageCursor

(***************************************************************************)
(* The socket registry (services/socket.ts): chatSockets maps a chatId to  *)
(* the set of socket ids identified with it; a socket is new, connected    *)
(* or disconnected (a socket id is never used again), its data holds the   *)
(* chatId of its last identify, and identified remembers every chatId it   *)
(* sent                                                                    *)
(***************************************************************************)
\* one event or call of the service on socket s
SocketCall(op, s, chatId, ret) ==
  /\ call' = [op |-> op, chatId |-> chatId, arg |-> [socket |-> s], ret |-> ret]
  /\ UNCHANGED <<userMemoryMap, appendLog, routed, inflight>>

\* lines 32-33: a client connects
SocketConnect ==
  \E s \in SocketIds :
    /\ sockets[s].status = "new"
    /\ sockets' = [sockets EXCEPT ![s].status = "connected"]
    /\ UNCHANGED chatSockets
    /\ SocketCall("connection", s, "", "void")

\* lines 36-46: identify with a chatId, or with none
SocketIdentify ==
  \E s \in SocketIds, chatId \in AllChats \cup {""} :
    /\ sockets[s].status = "connected"
    /\ IF chatId # ""
       THEN /\ chatSockets' =
                 [c \in (DOMAIN chatSockets) \cup {chatId} |->
                    IF c = chatId
                    THEN (IF c \in DOMAIN chatSockets THEN chatSockets[c] ELSE {}) \cup {s}
                    ELSE chatSockets[c]]
            /\ sockets' = [sockets EXCEPT ![s].data = [chatId |-> chatId],
                                          ![s].identified = @ \cup {chatId}]
       ELSE UNCHANGED <<chatSockets, sockets>>
    /\ SocketCall("identify", s, chatId, "void")

\* the map after the disconnect of socket s whose data holds chatId
Disconnected(m, s, chatId) ==
  IF chatId \in DOMAIN m
  THEN IF m[chatId] \ {s} = {}
       THEN [c \in (DOMAIN m) \ {chatId} |-> m[c]]
       ELSE [m EXCEPT ![chatId] = @ \ {s}]
  ELSE m

\* lines 49-61: the socket disconnects
SocketDisconnect ==
  \E s \in SocketIds :
    /\ sockets[s].status = "connected"
    /\ sockets' = [sockets EXCEPT ![s].status = "disconnected"]
    /\ chatSockets' = IF "chatId" \in DOMAIN sockets[s].data
                      THEN Disconnected(chatSockets, s, sockets[s].data.chatId)
                      ELSE chatSockets
    /\ SocketCall("disconnect", s, "", "void")

\* lines 290-293
isChatConnected(m, chatId) == chatId \in DOMAIN m /\ m[chatId] # {}

IsChatConnected ==
  \E chatId \in AllChats :
    /\ UNCHANGED <<chatSockets, sockets>>
    /\ SocketCall("isChatConnected", "", chatId, isChatConnected(chatSockets, chatId))

InitSockets == InitCart

NextSockets ==
  \/ SocketConnect
  \/ SocketIdentify
  \/ SocketDisconnect
  \/ IsChatConnected

SpecSockets == InitSockets /\ [][NextSockets]_vars

\* the three parts of the registry property
NoDisconnectedListed ==
  \A s \in SocketIds :
    sockets[s].status = "disconnected" =>
      \A c \in DOMAIN chatSockets : s \notin chatSockets[c]

NoEmptySet == \A c \in DOMAIN chatSockets : chatSockets[c] # {}

ConnectedExactly ==
  \A c \in AllChats :
    isChatConnected(chatSockets, c) <=>
      \E s \in SocketIds : sockets[s].status = "connected" /\ c \in sockets[s].identified

\* C39: after any sequence of connect, identify and disconnect events the
\* id of a disconnected socket is in no chat's set, no chat is mapped to an
\* empty set, and isChatConnected(chatId) is true exactly when a socket that
\* is connected has identified with chatId, also when a socket identifies
\* more than once, with the same or with different chatIds.
C39_RegistryExact == NoDisconnectedListed /\ NoEmptySet /\ ConnectedExactly

\* C39, sockets of one chat: the registry is exact as long as no socket
\* has identified with two different chatIds; no chat is ever mapped to an
\* empty set.
C39_ExactForOneChatPerSocket ==
  /\ NoEmptySet
  /\ (\A s \in SocketIds : Cardinality(sockets[s].identified) <= 1) =>
       (NoDisconnectedListed /\ ConnectedExactly)

\* a socket identified with c1, then with c2, and disconnected: it is still
\* listed under c1, which reads as connected
C39_StaleSocket ==
  /\ call.op = "disconnect"
  /\ sockets[call.arg.socket].status = "disconnected"
  /\ sockets[call.arg.socket].identified = {"c1", "c2"}
  /\ isChatConnected(chatSockets, "c1")
  /\ \A s \in SocketIds : sockets[s].status # "connected"

====
